---------------------------- MODULE Spec2Model ----------------------------
(***************************************************************************)
(* Model of the breakpoint engine of thcrap                               *)
(* (src/thcrap_tsa/src/textimage.cpp, "Breakpoint handling"):             *)
(*   breakpoints_apply   - sizing pass, allocation, generation pass       *)
(*   cave_fix            - relocation of a leading CALL/JMP rel32         *)
(*   breakpoint_process  - runtime dispatch and stack adjustment          *)
(*   breakpoint_from_json, breakpoint_local_init                          *)
(*                       - construction of a description, handler lookup  *)
(*                                                                         *)
(* Memory is modelled byte by byte.  A 32-bit word is the sequence of its *)
(* four bytes in little-endian order, and all pointer arithmetic is done  *)
(* on such words with carry, i.e. modulo 2^32, as size_t arithmetic does  *)
(* on the x86 target.                                                      *)
(***************************************************************************)
EXTENDS Integers, Sequences, FiniteSets, TLC

(***************************************************************************)
(* Constants of the source                                                 *)
(***************************************************************************)
SizeofPtr == 4

CALL_LEN == SizeofPtr + 1

x86_CALL_NEAR_REL32 == 232

x86_JMP_NEAR_REL32 == 233

x86_NOP == 144

x86_INT3 == 204

\* Initial size of the patch buffer asm_buf.  The macro is defined outside
\* the files modelled here; the model uses a small value so that a cavesize
\* above it fits into the modelled host memory.
BINHACK_BUFSIZE_MIN == 12

(***************************************************************************)
(* Bounds of the model                                                     *)
(***************************************************************************)
\* Largest number of breakpoint descriptions handed to breakpoints_apply.
MaxBp == 3

\* Number of bytes of host code that are mapped.
HostLen == 32

(***************************************************************************)
(* 32-bit words                                                            *)
(***************************************************************************)
Byte == 0..255

\* The word of a natural number below 2^31.
W32(n) ==
    <<n % 256, (n \div 256) % 256, (n \div 65536) % 256, (n \div 16777216) % 256>>

Zero32 == <<0, 0, 0, 0>>

\* a + b modulo 2^32
Add32(a, b) ==
    LET s1 == a[1] + b[1]
        s2 == a[2] + b[2] + (s1 \div 256)
        s3 == a[3] + b[3] + (s2 \div 256)
        s4 == a[4] + b[4] + (s3 \div 256)
    IN  <<s1 % 256, s2 % 256, s3 % 256, s4 % 256>>

\* -a modulo 2^32
Neg32(a) == Add32(<<255 - a[1], 255 - a[2], 255 - a[3], 255 - a[4]>>, W32(1))

\* a - b modulo 2^32
Sub32(a, b) == Add32(a, Neg32(b))

\* The offset of pointer p in a region that starts at base, or -1 when p is
\* not within 64 KiB above base.
OffIn(p, base) ==
    LET d == Sub32(p, base)
    IN  IF d[3] = 0 /\ d[4] = 0 THEN d[1] + 256 * d[2] ELSE -1

(***************************************************************************)
(* Byte memories: functions from 0 .. n-1 to bytes                         *)
(***************************************************************************)
Fill(n, b) == [k \in 0..(n - 1) |-> b]

MemSize(mem) == Cardinality(DOMAIN mem)

InBounds(mem, off, n) == off >= 0 /\ off + n <= MemSize(mem)

\* memcpy(mem + off, bs, Len(bs)); bytes outside mem are not represented.
WriteBytes(mem, off, bs) ==
    [k \in DOMAIN mem |->
        IF k >= off /\ k < off + Len(bs) THEN bs[k - off + 1] ELSE mem[k]]

\* memset(mem + off, b, n)
SetBytes(mem, off, n, b) ==
    [k \in DOMAIN mem |-> IF k >= off /\ k < off + n THEN b ELSE mem[k]]

Rd(mem, k) == IF k \in DOMAIN mem THEN mem[k] ELSE 0

ReadBytes(mem, off, n) == [k \in 1..n |-> Rd(mem, off + k - 1)]

\* *(size_t*)(mem + off)
Load32(mem, off) == ReadBytes(mem, off, SizeofPtr)

\* *(size_t*)(mem + off) = w
Store32(mem, off, w) == WriteBytes(mem, off, w)

(***************************************************************************)
(* Address space layout of the modelled process                            *)
(***************************************************************************)
\* Start of the mapped host code (0x00401000).
HostBase == <<0, 16, 64, 0>>

HostAddr(off) == Add32(HostBase, W32(off))

\* Results VirtualAlloc may give for <<cave_source, cave_call>>: above the
\* host code (0x00A50000, 0x00A60000) or below it (0x00200000, 0x00210000).
CaveBases == { << <<0, 0, 165, 0>>, <<0, 0, 166, 0>> >>,
               << <<0, 0, 32, 0>>,  <<0, 0, 33, 0>> >> }

\* (size_t)&breakpoint_process (0x10003A20)
BreakpointProcessAddr == <<32, 58, 0, 16>>

\* breakpoints, the array handed to breakpoints_apply (0x00B71000)
BreakpointsBase == <<0, 16, 183, 0>>

\* sizeof(breakpoint_local_t): name, cavesize, json_obj, func, addr
SizeofBreakpointLocal == 20

\* &breakpoints[i] (i counts from 1 in the model)
DescAddr(i) == Add32(BreakpointsBase, W32((i - 1) * SizeofBreakpointLocal))

\* The host code before setup: a JMP rel32 at offset 3 (displacement 16), a
\* CALL rel32 at offset 16 (displacement -4), other bytes elsewhere.
HostCode ==
    [k \in 0..(HostLen - 1) |->
        CASE k = 3  -> x86_JMP_NEAR_REL32
          [] k = 4  -> 16
          [] k \in 5..7 -> 0
          [] k = 16 -> x86_CALL_NEAR_REL32
          [] k = 17 -> 252
          [] k \in 18..20 -> 255
          [] OTHER -> (k * 7 + 3) % 128]

\* VirtualCheckRegion(addr, len): len bytes at addr are mapped host memory.
VirtualCheckRegion(addr, len) ==
    LET o == OffIn(addr, HostBase)
    IN  o >= 0 /\ o + len <= HostLen

(***************************************************************************)
(* The trampoline stub template bp_entry (defined in assembly)             *)
(***************************************************************************)
\* pushad; pushfd; push esp; push imm32 (cave); push imm32 (local);
\* call rel32 (breakpoint_process); lea esp,[esp+eax+0xC]; popfd; popad; ret
bp_entry ==
    [k \in 0..24 |->
        <<96, 156, 84, 104, 0, 0, 0, 0, 104, 0, 0, 0, 0, 232, 0, 0, 0, 0,
          141, 100, 4, 12, 157, 97, 195>>[k + 1]]

\* &bp_entry_end - &bp_entry
bp_entry_size == MemSize(bp_entry)

\* &bp_entry_caveptr + 1 - &bp_entry
bp_entry_cave == 4

\* &bp_entry_localptr + 1 - &bp_entry
bp_entry_local == 9

\* &bp_entry_callptr + 1 - &bp_entry
bp_entry_call == 14

(***************************************************************************)
(* Breakpoint descriptions                                                 *)
(***************************************************************************)
NullEntry == [type |-> "NULL_ADDR", raw |-> Zero32]

RawEntry(a) == [type |-> "RAW_ADDR", raw |-> a]

\* A description as breakpoint_from_json leaves it: cavesize >= CALL_LEN,
\* func = nullptr (FALSE), a non-empty address list.  registered says
\* whether func_get finds a function under the key of the name.
Desc(cs, reg, addrs) ==
    [cavesize |-> cs, registered |-> reg, func |-> FALSE, addr |-> addrs]

\* The descriptions the model draws its inputs from.
DescChoices ==
    { Desc(5, TRUE, <<RawEntry(HostAddr(0))>>),
      Desc(7, TRUE, <<NullEntry, RawEntry(HostAddr(16))>>),
      Desc(12, TRUE, <<RawEntry(HostAddr(0)), RawEntry(HostAddr(16))>>),
      Desc(5, TRUE, <<RawEntry(HostAddr(HostLen - 4)), RawEntry(HostAddr(3))>>),
      Desc(7, TRUE, <<RawEntry(HostAddr(HostLen - 4))>>),
      Desc(5, FALSE, <<RawEntry(HostAddr(16))>>),
      Desc(BINHACK_BUFSIZE_MIN + 1, TRUE, <<RawEntry(HostAddr(16))>>),
      Desc(6, TRUE, <<RawEntry(HostAddr(16)), NullEntry>>) }

\* eval_hackpoint_addr(cur_addr, &addr, hMod) on entry k of a list: FALSE at
\* the end of the list; otherwise the address, 0 for a null or tagged entry.
eval_hackpoint_addr(addrs, k) ==
    IF k > Len(addrs)
    THEN [ok |-> FALSE, addr |-> Zero32]
    ELSE [ok |-> TRUE,
          addr |-> IF addrs[k].type = "RAW_ADDR" THEN addrs[k].raw ELSE Zero32]

\* (v + a - 1) & -a
AlignUpToMultipleOf2(v, a) == ((v + a - 1) \div a) * a

\* AlignUpToMultipleOf2(cavesize + CALL_LEN, 16)
SlotSize(cavesize) == AlignUpToMultipleOf2(cavesize + CALL_LEN, 16)

(***************************************************************************)
(* State of breakpoints_apply                                              *)
(***************************************************************************)
VARIABLES
    pc,                     \* position in breakpoints_apply
    breakpoints0,           \* the descriptions as handed in (never changed)
    breakpoints,            \* the descriptions (func and address tags change)
    host,                   \* the mapped host code
    i,                      \* loop index over the descriptions (from 1)
    cur_addr,               \* index into cur->addr in the generation pass,
                            \* 0 before the description has been entered
    sourcecaves_total_size,
    valid_breakpoint_count,
    total_valid_addrs,
    breakpoint_total_size,
    callcaves_total_size,
    cave_bases,             \* <<cave_source, cave_call>> as VirtualAlloc gave them
    cave_source,            \* bytes of the source-cave region
    cave_call,              \* bytes of the call-cave region
    sourcecave_p,           \* offset of the write cursor in cave_source
    callcave_p,             \* offset of the write cursor in cave_call
    asm_buf,                \* the patch buffer
    current_asm_buf_size,
    protect,                \* page protection of both cave regions
    retval,                 \* what breakpoints_apply returned
    fault,                  \* the memory fault the run ended with
    sites                   \* the PatchSites generated so far, in order

(***************************************************************************)
(* State of one dispatch (bp_entry and breakpoint_process)                 *)
(***************************************************************************)
VARIABLES
    dpc,                    \* position of the dispatch
    stack_base,             \* address of byte 0 of the modelled stack window
    stack,                  \* bytes of the stack window
    regs,                   \* offset of the snapshot (x86_reg_t) in the window
    cave_addr,              \* address of the PatchSite's source-cave slot
    esp_diff,               \* what breakpoint_process returned
    esp0,                   \* the stack pointer when the patched address was reached
    cpu,                    \* the registers of the program outside the stub
    handler                 \* what the handler did in this dispatch

dispVars ==
    <<dpc, stack_base, stack, regs, cave_addr, esp_diff, esp0, cpu, handler>>

(***************************************************************************)
(* Comparison of two calls of breakpoints_apply                            *)
(***************************************************************************)
VARIABLES
    cmp                     \* which description the second call leaves out,
                            \* which call is running, and what the first
                            \* call left behind

(***************************************************************************)
(* State of the construction of one description (breakpoint_from_json and  *)
(* breakpoint_local_init)                                                  *)
(***************************************************************************)
VARIABLES
    cpc,                    \* position of the construction
    bp_name,                \* the name handed to breakpoint_from_json
    json_in,                \* the JSON value handed to breakpoint_from_json
    json_refs,              \* the reference count of that value
    out0,                   \* *out before the call (never changed)
    out,                    \* *out
    result,                 \* what breakpoint_from_json returned
    bp_key,                 \* the key buffer of breakpoint_local_init
    bp_key_size,            \* the number of bytes allocated for it
    bp_key_written,         \* the number of bytes written into it
    func_found              \* what breakpoint_local_init returned

consVars ==
    <<cpc, bp_name, json_in, json_refs, out0, out, result, bp_key, bp_key_size,
      bp_key_written, func_found>>

(***************************************************************************)
(* State of one File and of the threads that call File::download on it     *)
(***************************************************************************)
VARIABLES
    status,                 \* File::status (atomic)
    data,                   \* File::data
    data_mutex,             \* the thread that holds File::data_mutex, or 0
    tpc,                    \* position of each thread in File::download
    local_data,             \* fileDownloading.local_data of each thread
    ret,                    \* what download returned to each thread
    ret_status,             \* the status of the file when it returned
    data_assigns,           \* the threads that assigned File::data, in order
    finishers               \* the threads that took data_mutex, in order

fileVars ==
    <<status, data, data_mutex, tpc, local_data, ret, ret_status, data_assigns,
      finishers>>

(***************************************************************************)
(* State of the text image sprites                                         *)
(***************************************************************************)
VARIABLES
    SpriteSpecs,            \* the sprite specs of the game, one after the other
    SpriteScripts,          \* the script pointer of each sprite slot
    SpriteRuntimeMap,       \* the sprite_runtime_t of each sprite slot
    Groups,                 \* the registered groups, each a list of slots
    commits                 \* the number of textimage_commit calls so far

spriteVars == <<SpriteSpecs, SpriteScripts, SpriteRuntimeMap, Groups, commits>>

(***************************************************************************)
(* State of the text image declarations                                    *)
(***************************************************************************)
VARIABLES
    Instances,              \* every textimage_t created so far; live: not deleted
    ImageList,              \* the vector Images: pointers to instances
    ActiveTi,               \* sprite_runtime_t::active_ti of each slot, or 0
    TextureSlots,           \* the image whose texture is in each texture slot
    ActiveSprite,           \* sprite_runtime_t::active_sprite_on_ti of each slot
    Shown,                  \* the image whose sprite the game shows in each slot
    uaf,                    \* a deleted instance was dereferenced
    last                    \* the last call of BP_textimage_load

loadVars ==
    <<Instances, ImageList, ActiveTi, ActiveSprite, TextureSlots, Shown, uaf,
      last>>

(***************************************************************************)
(* State of one call of patch_thtx                                         *)
(***************************************************************************)
VARIABLES
    args,                   \* thtx, x, y and image of the call
    ppc,                    \* the position in patch_thtx
    row,                    \* row
    in_p,                   \* in, as an offset into image->buf
    out_p,                  \* out, as an offset into thtx->data
    reads,                  \* the bytes of image->buf read so far
    writes,                 \* the bytes of thtx->data written so far
    patch_ret               \* the result of the call

thtxVars == <<args, ppc, row, in_p, out_p, reads, writes, patch_ret>>

\* The variables of the parts that have nothing to do with breakpoints.
restVars == <<fileVars, spriteVars, loadVars, thtxVars>>

\* The variables breakpoints_apply does not touch.
notApply == <<dispVars, cmp, consVars, restVars>>

applyVars ==
    <<pc, breakpoints0, breakpoints, host, i, cur_addr, sourcecaves_total_size,
      valid_breakpoint_count, total_valid_addrs, breakpoint_total_size,
      callcaves_total_size, cave_bases, cave_source, cave_call, sourcecave_p,
      callcave_p, asm_buf, current_asm_buf_size, protect, retval, fault, sites>>

\* The variables a dispatch does not touch.
notDisp == <<applyVars, cmp, consVars, restVars>>

bp_count == Len(breakpoints)

SrcAddr(off) == Add32(cave_bases[1], W32(off))

CallAddr(off) == Add32(cave_bases[2], W32(off))

(***************************************************************************)
(* Sizing pass                                                             *)
(***************************************************************************)
\* Mutant of breakpoint_local_init: a handler that is not found is not
\* noticed.
breakpoint_local_init_AlwaysFound(bp) == [bp EXCEPT !.func = TRUE]

\* breakpoint_local_init: the handler is looked up under the key of the name
breakpoint_local_init(bp) == [bp EXCEPT !.func = bp.registered]

\* Mutant of SizeAddrs: a null entry is tagged like an address that fails
\* the region check.
RECURSIVE SizeAddrs_TagNull(_, _, _)
SizeAddrs_TagNull(addrs, k, cavesize) ==
    LET e == eval_hackpoint_addr(addrs, k)
    IN  IF ~e.ok THEN [addr |-> addrs, valid |-> 0]
        ELSE IF e.addr = Zero32 \/ ~VirtualCheckRegion(e.addr, cavesize)
             THEN SizeAddrs_TagNull([addrs EXCEPT ![k].type = "INVALID_ADDR"],
                                    k + 1, cavesize)
        ELSE LET r == SizeAddrs_TagNull(addrs, k + 1, cavesize)
             IN  [addr |-> r.addr, valid |-> r.valid + 1]

\* Mutant of SizeAddrs: an address that fails the region check is passed
\* over without being tagged.
RECURSIVE SizeAddrs_NoTag(_, _, _)
SizeAddrs_NoTag(addrs, k, cavesize) ==
    LET e == eval_hackpoint_addr(addrs, k)
    IN  IF ~e.ok THEN [addr |-> addrs, valid |-> 0]
        ELSE IF e.addr = Zero32 \/ ~VirtualCheckRegion(e.addr, cavesize)
             THEN SizeAddrs_NoTag(addrs, k + 1, cavesize)
        ELSE LET r == SizeAddrs_NoTag(addrs, k + 1, cavesize)
             IN  [addr |-> r.addr, valid |-> r.valid + 1]

\* The address loop of the sizing pass from entry k on: tags the entries
\* that fail the region check and counts the valid ones.
RECURSIVE SizeAddrs(_, _, _)
SizeAddrs(addrs, k, cavesize) ==
    LET e == eval_hackpoint_addr(addrs, k)
    IN  IF ~e.ok THEN [addr |-> addrs, valid |-> 0]
        ELSE IF e.addr = Zero32 THEN SizeAddrs(addrs, k + 1, cavesize)
        ELSE IF ~VirtualCheckRegion(e.addr, cavesize)
             THEN SizeAddrs([addrs EXCEPT ![k].type = "INVALID_ADDR"],
                            k + 1, cavesize)
        ELSE LET r == SizeAddrs(addrs, k + 1, cavesize)
             IN  [addr |-> r.addr, valid |-> r.valid + 1]

\* The size recorded in breakpoint_total_size[i] for a description with at
\* least one valid address.
TotalSizeOf(cavesize) == SlotSize(cavesize)

\* What one valid address adds to sourcecaves_total_size.
SourceSizeOf(cavesize) == SlotSize(cavesize)

ApplyEmpty ==
    /\ UNCHANGED notApply
    /\ pc = "start" /\ bp_count = 0
    /\ pc' = "done" /\ retval' = 0
    /\ UNCHANGED <<breakpoints0, breakpoints, host, i, cur_addr,
                   sourcecaves_total_size, valid_breakpoint_count,
                   total_valid_addrs, breakpoint_total_size, callcaves_total_size,
                   cave_bases, cave_source, cave_call, sourcecave_p, callcave_p,
                   asm_buf, current_asm_buf_size, protect, fault, sites>>

ApplyBegin ==
    /\ UNCHANGED notApply
    /\ pc = "start" /\ bp_count > 0
    /\ pc' = "size" /\ i' = 1
    /\ breakpoint_total_size' = [k \in 1..bp_count |-> 0]
    /\ UNCHANGED <<breakpoints0, breakpoints, host, cur_addr,
                   sourcecaves_total_size, valid_breakpoint_count,
                   total_valid_addrs, callcaves_total_size,
                   cave_bases, cave_source, cave_call, sourcecave_p, callcave_p,
                   asm_buf, current_asm_buf_size, protect, retval, fault, sites>>

\* One iteration of the sizing loop.
SizeDesc ==
    /\ UNCHANGED notApply
    /\ pc = "size" /\ i <= bp_count
    /\ LET cur == breakpoint_local_init(breakpoints[i])
           r == SizeAddrs(cur.addr, 1, cur.cavesize)
       IN  IF ~cur.func
           THEN /\ breakpoints' = [breakpoints EXCEPT ![i] = cur]
                /\ UNCHANGED <<sourcecaves_total_size, valid_breakpoint_count,
                               total_valid_addrs, breakpoint_total_size>>
           ELSE /\ breakpoints' =
                       [breakpoints EXCEPT ![i] = [cur EXCEPT !.addr = r.addr]]
                /\ sourcecaves_total_size' =
                       sourcecaves_total_size + r.valid * SourceSizeOf(cur.cavesize)
                /\ IF r.valid = 0
                   THEN UNCHANGED <<valid_breakpoint_count, total_valid_addrs,
                                    breakpoint_total_size>>
                   ELSE /\ breakpoint_total_size' =
                               [breakpoint_total_size EXCEPT
                                    ![i] = TotalSizeOf(cur.cavesize)]
                        /\ total_valid_addrs' = total_valid_addrs + r.valid
                        /\ valid_breakpoint_count' = valid_breakpoint_count + 1
    /\ i' = i + 1
    /\ UNCHANGED <<pc, breakpoints0, host, cur_addr, callcaves_total_size,
                   cave_bases, cave_source, cave_call, sourcecave_p, callcave_p,
                   asm_buf, current_asm_buf_size, protect, retval, fault, sites>>

\* "No breakpoints to render."
SizeNone ==
    /\ UNCHANGED notApply
    /\ pc = "size" /\ i > bp_count /\ total_valid_addrs = 0
    /\ pc' = "done" /\ retval' = 0
    /\ UNCHANGED <<breakpoints0, breakpoints, host, i, cur_addr,
                   sourcecaves_total_size, valid_breakpoint_count,
                   total_valid_addrs, breakpoint_total_size, callcaves_total_size,
                   cave_bases, cave_source, cave_call, sourcecave_p, callcave_p,
                   asm_buf, current_asm_buf_size, protect, fault, sites>>

(***************************************************************************)
(* Allocation                                                              *)
(***************************************************************************)
\* Mutant of CallCavesTotalSize: the descriptions are counted, not the
\* addresses.
CallCavesTotalSize_PerDescription(n) == valid_breakpoint_count * bp_entry_size

\* total_valid_addrs * bp_entry_size
CallCavesTotalSize(n) == n * bp_entry_size

\* The call-cave region after the loop that copies the template into it.
TemplateCopies(total) ==
    [k \in 0..(total - 1) |-> bp_entry[k % bp_entry_size]]

\* asm_buf after malloc and the set-up of the CALL opcode and the padding.
\* Bytes 1 .. CALL_LEN-1 are not written here; they are written with bp_dist
\* before the buffer is first read.
AsmBufInit ==
    [k \in 0..(BINHACK_BUFSIZE_MIN - 1) |->
        IF k = 0 THEN x86_CALL_NEAR_REL32
        ELSE IF k >= CALL_LEN THEN x86_NOP
        ELSE 0]

\* Mutant of TrapFill: the region is filled with NOPs.
TrapFill_Nop(n) == Fill(n, x86_NOP)

\* The memset that follows the allocation of the source-cave region.
TrapFill(n) == Fill(n, x86_INT3)

\* Mutant of AllocProtect: the regions are allocated executable.
AllocProtect_Executable == "PAGE_EXECUTE_READWRITE"

\* The protection both regions are allocated with.
AllocProtect == "PAGE_READWRITE"

\* Both VirtualAlloc calls succeed.
Alloc ==
    /\ UNCHANGED notApply
    /\ pc = "size" /\ i > bp_count /\ total_valid_addrs > 0
    /\ \E b \in CaveBases : cave_bases' = b
    /\ cave_source' = TrapFill(sourcecaves_total_size)
    /\ callcaves_total_size' = CallCavesTotalSize(total_valid_addrs)
    /\ cave_call' = TemplateCopies(callcaves_total_size')
    /\ protect' = AllocProtect
    /\ sourcecave_p' = 0 /\ callcave_p' = 0
    /\ current_asm_buf_size' = BINHACK_BUFSIZE_MIN
    /\ asm_buf' = AsmBufInit
    /\ pc' = "gen" /\ i' = 1 /\ cur_addr' = 0
    /\ UNCHANGED <<breakpoints0, breakpoints, host, sourcecaves_total_size,
                   valid_breakpoint_count, total_valid_addrs,
                   breakpoint_total_size, retval, fault, sites>>

\* VirtualAlloc returns NULL for one of the regions: the result is not
\* checked, and the memset (source) or the template copy (call) writes
\* through the null pointer.
AllocFail ==
    /\ UNCHANGED notApply
    /\ pc = "size" /\ i > bp_count /\ total_valid_addrs > 0
    /\ \E which \in {"source", "call"} :
         /\ cave_bases' = IF which = "source" THEN <<Zero32, Zero32>>
                          ELSE <<<<0, 0, 165, 0>>, Zero32>>
         /\ cave_source' = IF which = "source" THEN cave_source
                           ELSE TrapFill(sourcecaves_total_size)
         /\ callcaves_total_size' =
                IF which = "source" THEN callcaves_total_size
                ELSE CallCavesTotalSize(total_valid_addrs)
    /\ fault' = "null_write" /\ pc' = "crashed"
    /\ UNCHANGED <<breakpoints0, breakpoints, host, i, cur_addr,
                   sourcecaves_total_size, valid_breakpoint_count,
                   total_valid_addrs, breakpoint_total_size, cave_call,
                   sourcecave_p, callcave_p, asm_buf, current_asm_buf_size,
                   protect, retval, sites>>

(***************************************************************************)
(* Generation pass                                                         *)
(***************************************************************************)
\* The value of a word as a number when it is below 2^16, else -1.
Small(w) == OffIn(w, Zero32)

\* The byte count handed to memset when asm_buf is grown:
\* current_asm_buf_size - cavesize, a size_t.
GrowFillCount(cur_size, cavesize) == Sub32(W32(cur_size), W32(cavesize))

\* realloc(asm_buf, size): the old contents, then bytes not yet written.
Realloc(buf, size) == [k \in 0..(size - 1) |-> Rd(buf, k)]

\* Mutant of cave_fix: the distance between the two locations is applied
\* with the wrong sign.
cave_fix_Swapped(mem, off, cave, bp_addr) ==
    IF mem[off] = x86_CALL_NEAR_REL32 \/ mem[off] = x86_JMP_NEAR_REL32
    THEN Store32(mem, off + 1,
                 Sub32(Add32(Load32(mem, off + 1), cave), bp_addr))
    ELSE mem

\* cave_fix(cave, bp_addr) on the slot at offset off of mem, cave being the
\* address of that slot.
cave_fix(mem, off, cave, bp_addr) ==
    IF mem[off] = x86_CALL_NEAR_REL32 \/ mem[off] = x86_JMP_NEAR_REL32
    THEN LET dist_old == Load32(mem, off + 1)
             dist_new == Sub32(Add32(dist_old, bp_addr), cave)
         IN  Store32(mem, off + 1, dist_new)
    ELSE mem

\* Mutant of CallFieldValue: the displacement is taken from the start of
\* the field instead of from its end.
CallFieldValue_NoPtrSize(field_addr) == Sub32(BreakpointProcessAddr, field_addr)

\* (size_t)&breakpoint_process - (size_t)bp_instance_ptr - sizeof(void*)
CallFieldValue(field_addr) ==
    Sub32(Sub32(BreakpointProcessAddr, field_addr), W32(SizeofPtr))

\* The three PatchBPEntryInst of one PatchSite, on the stub copy at offset
\* cp of the call-cave region.
PatchBPEntry(mem, cp, slot_addr, desc_addr) ==
    LET m1 == Store32(mem, cp + bp_entry_cave, slot_addr)
        m2 == Store32(m1, cp + bp_entry_local, desc_addr)
    IN  Store32(m2, cp + bp_entry_call,
                CallFieldValue(CallAddr(cp + bp_entry_call)))

\* Mutant of BpDist: the length of the CALL is not taken off.
BpDist_NoCallLen(call_slot_addr, addr) == Sub32(call_slot_addr, addr)

\* bp_dist = (size_t)callcave_p - (addr + CALL_LEN)
BpDist(call_slot_addr, addr) ==
    Sub32(call_slot_addr, Add32(addr, W32(CALL_LEN)))

\* Mutant of CaveDist: the length of the JMP is not taken off.
CaveDist_NoCallLen(addr, slot_addr) == Sub32(addr, slot_addr)

\* cave_dist = addr - ((size_t)sourcecave_p + CALL_LEN)
CaveDist(addr, slot_addr) == Sub32(addr, Add32(slot_addr, W32(CALL_LEN)))

\* Cave assembly: copy the old code, fix it, append JMP addr.
CaveAssembly(mem, sp, copied, cavesize, addr) ==
    LET m1 == WriteBytes(mem, sp, copied)
        m2 == cave_fix(m1, sp, SrcAddr(sp), addr)
        m3 == WriteBytes(m2, sp + cavesize, <<x86_JMP_NEAR_REL32>>)
    IN  Store32(m3, sp + cavesize + 1, CaveDist(addr, SrcAddr(sp)))

\* PatchRegion((void*)addr, NULL, buf, n): n bytes of buf written at addr.
PatchRegion(hostmem, addr, buf, n) ==
    WriteBytes(hostmem, OffIn(addr, HostBase), ReadBytes(buf, 0, n))

\* Mutant of CopyOldCode: only the bytes the call will overwrite are copied.
CopyOldCode_CallLen(hostmem, addr, cavesize) ==
    ReadBytes(hostmem, OffIn(addr, HostBase), CALL_LEN)

\* The bytes memcpy(sourcecave_p, (void*)addr, cavesize) reads.
CopyOldCode(hostmem, addr, cavesize) ==
    ReadBytes(hostmem, OffIn(addr, HostBase), cavesize)

\* Mutant of CallStep: the cursor advances by the size of one patched
\* field, not by the size of the stub.
CallStep_OneField == SizeofPtr

\* The step of the call-cave cursor after a PatchSite.
CallStep == bp_entry_size

\* Mutant of InstallLen: the whole patch buffer is written.
InstallLen_WholeBuffer(cavesize) == current_asm_buf_size

\* The number of bytes of asm_buf that PatchRegion writes at addr.
InstallLen(cavesize) == cavesize

\* Mutant of SourceStep: the cursor advances by the bytes written, without
\* the alignment.
SourceStep_Unaligned(k) == breakpoints[k].cavesize + CALL_LEN

\* The step of the source-cave cursor after a PatchSite of description k.
SourceStep(k) == breakpoint_total_size[k]

\* Entering description i in the generation pass: skipped when it has no
\* recorded size, and asm_buf is grown when its cavesize needs it.  The
\* memset of the growth starts at asm_buf + current_asm_buf_size and is given
\* GrowFillCount bytes; when that range leaves the reallocated buffer the
\* write runs on through the heap until it reaches memory that is not
\* writable, so the run ends in a fault.
GenDesc ==
    /\ UNCHANGED notApply
    /\ pc = "gen" /\ i <= bp_count /\ cur_addr = 0
    /\ LET cavesize == breakpoints[i].cavesize
           cnt == Small(GrowFillCount(current_asm_buf_size, cavesize))
           grown == Realloc(asm_buf, cavesize)
       IN  IF breakpoint_total_size[i] = 0
           THEN /\ i' = i + 1
                /\ UNCHANGED <<pc, cur_addr, asm_buf, current_asm_buf_size, fault>>
           ELSE IF cavesize > current_asm_buf_size
           THEN IF cnt = -1 \/ current_asm_buf_size + cnt > cavesize
                THEN \* memset runs past the end of the reallocated buffer
                     /\ asm_buf' = SetBytes(grown, current_asm_buf_size,
                                            cavesize - current_asm_buf_size, x86_NOP)
                     /\ fault' = "asm_buf_overrun" /\ pc' = "crashed"
                     /\ UNCHANGED <<i, cur_addr, current_asm_buf_size>>
                ELSE /\ asm_buf' = SetBytes(grown, current_asm_buf_size, cnt, x86_NOP)
                     /\ current_asm_buf_size' = cavesize
                     /\ cur_addr' = 1
                     /\ UNCHANGED <<pc, i, fault>>
           ELSE /\ cur_addr' = 1
                /\ UNCHANGED <<pc, i, asm_buf, current_asm_buf_size, fault>>
    /\ UNCHANGED <<breakpoints0, breakpoints, host, sourcecaves_total_size,
                   valid_breakpoint_count, total_valid_addrs,
                   breakpoint_total_size, callcaves_total_size, cave_bases,
                   cave_source, cave_call, sourcecave_p, callcave_p, protect,
                   retval, sites>>

\* One iteration of the address loop of the generation pass.
GenAddr ==
    /\ UNCHANGED notApply
    /\ pc = "gen" /\ i <= bp_count /\ cur_addr >= 1
    /\ LET cur == breakpoints[i]
           cavesize == cur.cavesize
           e == eval_hackpoint_addr(cur.addr, cur_addr)
           addr == e.addr
           copied == CopyOldCode(host, addr, cavesize)
           buf == Store32(asm_buf, 1, BpDist(CallAddr(callcave_p), addr))
       IN  IF ~e.ok
           THEN /\ i' = i + 1 /\ cur_addr' = 0
                /\ UNCHANGED <<pc, host, cave_source, cave_call, sourcecave_p,
                               callcave_p, asm_buf, fault, sites>>
           ELSE IF addr = Zero32
           THEN /\ cur_addr' = cur_addr + 1
                /\ UNCHANGED <<pc, i, host, cave_source, cave_call, sourcecave_p,
                               callcave_p, asm_buf, fault, sites>>
           ELSE IF ~InBounds(cave_call, callcave_p, bp_entry_size)
                   \/ ~InBounds(cave_source, sourcecave_p, cavesize + CALL_LEN)
           THEN \* a write outside the allocated regions
                /\ fault' = "cave_overrun" /\ pc' = "crashed"
                /\ UNCHANGED <<i, cur_addr, host, cave_source, cave_call,
                               sourcecave_p, callcave_p, asm_buf, sites>>
           ELSE /\ cave_call' = PatchBPEntry(cave_call, callcave_p,
                                             SrcAddr(sourcecave_p), DescAddr(i))
                /\ asm_buf' = buf
                /\ callcave_p' = callcave_p + CallStep
                /\ cave_source' = CaveAssembly(cave_source, sourcecave_p, copied,
                                               cavesize, addr)
                /\ host' = PatchRegion(host, addr, buf, InstallLen(cavesize))
                /\ sourcecave_p' = sourcecave_p + SourceStep(i)
                /\ sites' = Append(sites,
                       [bp |-> i, entry |-> cur_addr, addr |-> addr,
                        cavesize |-> cavesize, copied |-> copied,
                        src |-> sourcecave_p, src_end |-> sourcecave_p',
                        call |-> callcave_p, call_end |-> callcave_p'])
                /\ cur_addr' = cur_addr + 1
                /\ UNCHANGED <<pc, i, fault>>
    /\ UNCHANGED <<breakpoints0, breakpoints, sourcecaves_total_size,
                   valid_breakpoint_count, total_valid_addrs,
                   breakpoint_total_size, callcaves_total_size, cave_bases,
                   current_asm_buf_size, protect, retval>>

\* After the loop: both regions are made PAGE_EXECUTE and the number of
\* descriptions that were not rendered is returned.
GenDone ==
    /\ UNCHANGED notApply
    /\ pc = "gen" /\ i > bp_count
    /\ protect' = "PAGE_EXECUTE"
    /\ retval' = bp_count - valid_breakpoint_count
    /\ pc' = "done"
    /\ UNCHANGED <<breakpoints0, breakpoints, host, i, cur_addr,
                   sourcecaves_total_size, valid_breakpoint_count,
                   total_valid_addrs, breakpoint_total_size, callcaves_total_size,
                   cave_bases, cave_source, cave_call, sourcecave_p, callcave_p,
                   asm_buf, current_asm_buf_size, fault, sites>>

\* The state in which breakpoints_apply is entered with the list
\* breakpoints0.
ApplyEntry ==
    /\ pc = "start"
    /\ breakpoints = breakpoints0
    /\ host = HostCode
    /\ i = 0 /\ cur_addr = 0
    /\ sourcecaves_total_size = 0
    /\ valid_breakpoint_count = 0
    /\ total_valid_addrs = 0
    /\ breakpoint_total_size = <<>>
    /\ callcaves_total_size = 0
    /\ cave_bases = <<Zero32, Zero32>>
    /\ cave_source = Fill(0, 0)
    /\ cave_call = Fill(0, 0)
    /\ sourcecave_p = 0 /\ callcave_p = 0
    /\ asm_buf = Fill(0, 0)
    /\ current_asm_buf_size = 0
    /\ protect = "none"
    /\ retval = -1
    /\ fault = "none"
    /\ sites = <<>>

ApplyInit ==
    /\ breakpoints0 \in UNION {[1..n -> DescChoices] : n \in 0..MaxBp}
    /\ ApplyEntry

ApplyNext ==
    \/ ApplyEmpty
    \/ ApplyBegin
    \/ SizeDesc
    \/ SizeNone
    \/ Alloc
    \/ AllocFail
    \/ GenDesc
    \/ GenAddr
    \/ GenDone

(***************************************************************************)
(* Runtime dispatch: bp_entry and breakpoint_process                       *)
(***************************************************************************)
\* Largest distance, in bytes, by which a handler of the model moves the
\* stack pointer.
MaxShift == 44

\* sizeof(x86_reg_t): flags, the eight PUSHAD registers, the return address
SizeofRegs == 40

\* Offsets of the fields of x86_reg_t, in the order PUSHFD / PUSHAD leave them.
RegNames == <<"flags", "edi", "esi", "ebp", "esp", "ebx", "edx", "ecx", "eax",
              "retaddr">>

RegOff(name) == SizeofPtr * ((CHOOSE k \in 1..Len(RegNames) : RegNames[k] = name) - 1)

StackLen == MaxShift + SizeofRegs + MaxShift

\* Where the stack window may lie (0x0019FE80, 0x0019FFD0).
StackBases == { <<128, 254, 25, 0>>, <<208, 255, 25, 0>> }

\* The source-cave slot addresses handed to breakpoint_process.
CaveAddrs == { <<0, 0, 165, 0>>, <<16, 0, 32, 0>> }

\* A signed byte distance as a size_t.
DeltaWord(d) == IF d >= 0 THEN W32(d) ELSE Neg32(W32(-d))

\* The changes of regs->esp the handlers of the model make.
DeltaChoices ==
    {-MaxShift, -SizeofRegs, -8, -4, -1, 0, 1, 4, 8, SizeofRegs - 4, SizeofRegs,
     MaxShift}

\* What a handler may do: return a flag, move regs->esp, write regs->retaddr.
HandlerChoices ==
    [flag : {0, 1, 2}, delta : DeltaChoices, ret : {"keep", "write"}]

\* The resume address a handler of the model writes (0x11223344).
HandlerTarget == <<68, 51, 34, 17>>

RegsAddr == Add32(stack_base, W32(regs))

\* The registers of the program when it reaches the patched address.
CpuInit(sp) ==
    [r \in {"flags", "edi", "esi", "ebp", "ebx", "edx", "ecx", "eax"} |->
        <<RegOff(r) + 1, RegOff(r) + 2, RegOff(r) + 3, 129>>]
    @@ [r \in {"esp"} |-> sp] @@ [r \in {"eip"} |-> HostAddr(0)]

\* Mutant of Memmove: the bytes are copied one by one from the lowest
\* address up, as a naive memcpy does.
RECURSIVE Memmove_Forward(_, _, _, _)
Memmove_Forward(mem, dst, src, n) ==
    IF n = 0 THEN mem
    ELSE Memmove_Forward(WriteBytes(mem, dst, <<Rd(mem, src)>>), dst + 1, src + 1, n - 1)

\* memmove(mem + dst, mem + src, n): correct for overlapping ranges.
Memmove(mem, dst, src, n) == WriteBytes(mem, dst, ReadBytes(mem, src, n))

\* The patched CALL pushes its return address; bp_entry pushes the
\* registers (PUSHAD stores the stack pointer it found) and the flags.
\* regs then points at the flags.
StubEntry ==
    /\ dpc = "running"
    /\ LET ret_slot == Sub32(cpu.esp, W32(SizeofPtr))
           pushed == [k \in 1..Len(RegNames) |->
                        IF RegNames[k] = "retaddr"
                            THEN Add32(cpu.eip, W32(CALL_LEN))
                        ELSE IF RegNames[k] = "esp" THEN ret_slot
                        ELSE cpu[RegNames[k]]]
       IN  stack' = [k \in DOMAIN stack |->
                        IF k >= regs /\ k < regs + SizeofRegs
                        THEN pushed[((k - regs) \div SizeofPtr) + 1]
                                   [((k - regs) % SizeofPtr) + 1]
                        ELSE stack[k]]
    /\ dpc' = "entry"
    /\ UNCHANGED <<stack_base, regs, cave_addr, esp_diff, esp0, cpu, handler>>
    /\ UNCHANGED notDisp

\* Mutant of CaveExec: only the value 1 counts as true.
CaveExec_OnlyOne(flag) == flag = 1

\* Whether the value the handler returned counts as "execute the cave".
CaveExec(flag) == flag # 0

\* Mutant of EspDiff: the operands are swapped.
EspDiff_Swapped(esp_new, esp_prev) == Sub32(esp_prev, esp_new)

\* esp_diff = regs->esp - esp_prev
EspDiff(esp_new, esp_prev) == Sub32(esp_new, esp_prev)

\* The descriptions a call-cave slot hands to breakpoint_process: the name
\* it was constructed from, its handler and its configuration object.
DispatchDescs ==
    [name : {"a", "b"}, func : {"BP_a", "BP_b"}, json_obj : {"cfg_1", "cfg_2"}]

\* Mutant of HandlerCalls: the handler is called a second time.
HandlerCalls_Twice(bp, r, mem) ==
    LET c == [callee |-> bp.func, regs |-> r, json_obj |-> bp.json_obj,
              seen |-> ReadBytes(mem, r, SizeofRegs)]
    IN  <<c, c>>

\* The calls breakpoint_process makes to functions that are not its own,
\* in order: the callee, its two arguments, and the snapshot as the callee
\* finds it.
HandlerCalls(bp, r, mem) ==
    << [callee |-> bp.func, regs |-> r, json_obj |-> bp.json_obj,
        seen |-> ReadBytes(mem, r, SizeofRegs)] >>

\* breakpoint_process(bp, cave_addr, regs), h being what bp->func does.
BreakpointProcess ==
    /\ dpc = "entry"
    /\ \E h \in HandlerChoices, bp \in DispatchDescs :
         LET esp_prev == Load32(stack, regs + RegOff("esp"))
             \* bp->func(regs, bp->json_obj)
             h1 == Store32(stack, regs + RegOff("esp"),
                           Add32(esp_prev, DeltaWord(h.delta)))
             h2 == IF h.ret = "write"
                   THEN Store32(h1, regs + RegOff("retaddr"), HandlerTarget)
                   ELSE h1
             \* Point return address to codecave.
             s1 == IF CaveExec(h.flag)
                   THEN Store32(h2, regs + RegOff("retaddr"), cave_addr)
                   ELSE h2
             esp_new == Load32(s1, regs + RegOff("esp"))
             diff == IF esp_prev # esp_new THEN EspDiff(esp_new, esp_prev)
                     ELSE Zero32
             dst == OffIn(Add32(RegsAddr, diff), stack_base)
         IN  /\ stack' = IF esp_prev # esp_new
                         THEN Memmove(s1, dst, regs, SizeofRegs)
                         ELSE s1
             /\ esp_diff' = diff
             /\ handler' = [bp |-> bp, calls |-> HandlerCalls(bp, regs, stack),
                            flag |-> h.flag, delta |-> h.delta, ret |-> h.ret,
                            retaddr |-> Load32(h2, regs + RegOff("retaddr")),
                            snapshot |-> ReadBytes(s1, regs, SizeofRegs),
                            others |-> [k \in DOMAIN stack |->
                                          IF k >= regs /\ k < regs + SizeofRegs
                                          THEN 0 ELSE h2[k]]]
    /\ dpc' = "processed"
    /\ UNCHANGED <<stack_base, regs, cave_addr, esp0, cpu>>
    /\ UNCHANGED notDisp

\* The rest of bp_entry: the arguments are dropped and the stack pointer is
\* moved by the returned amount (lea esp, [esp+eax+0xC]), then POPFD, POPAD
\* (which skips the stored esp) and RET.
StubResume ==
    /\ dpc = "processed"
    /\ LET sp == Add32(RegsAddr, esp_diff)
           o == OffIn(sp, stack_base)
       IN  cpu' = [r \in {"flags", "edi", "esi", "ebp", "ebx", "edx", "ecx", "eax"}
                        |-> Load32(stack, o + RegOff(r))]
                  @@ [r \in {"eip"} |-> Load32(stack, o + RegOff("retaddr"))]
                  @@ [r \in {"esp"} |-> Add32(sp, W32(SizeofRegs))]
    /\ dpc' = "resumed"
    /\ UNCHANGED <<stack_base, stack, regs, cave_addr, esp_diff, esp0, handler>>
    /\ UNCHANGED notDisp

NoHandler ==
    [bp |-> [name |-> "", func |-> "", json_obj |-> ""], calls |-> <<>>,
     flag |-> 0, delta |-> 0, ret |-> "keep", retaddr |-> Zero32,
     snapshot |-> <<>>, others |-> <<>>]

DispInit ==
    /\ dpc = "running"
    /\ stack_base \in StackBases
    /\ cave_addr \in CaveAddrs
    /\ regs = MaxShift
    /\ stack = [k \in 0..(StackLen - 1) |-> (k * 5 + 1) % 256]
    /\ esp0 = Add32(stack_base, W32(MaxShift + SizeofRegs))
    /\ cpu = CpuInit(esp0)
    /\ esp_diff = Zero32
    /\ handler = NoHandler

DispNext ==
    \/ StubEntry
    \/ BreakpointProcess
    \/ StubResume

\* No dispatch is modelled while breakpoints_apply runs.
DispIdle ==
    /\ dpc = "idle"
    /\ stack_base = Zero32 /\ cave_addr = Zero32 /\ regs = 0
    /\ stack = Fill(0, 0)
    /\ esp0 = Zero32 /\ cpu = CpuInit(Zero32)
    /\ esp_diff = Zero32
    /\ handler = NoHandler

\* breakpoints_apply has not been called in the runs of one dispatch.
ApplyIdle ==
    /\ pc = "idle"
    /\ breakpoints0 = <<>> /\ breakpoints = <<>>
    /\ host = HostCode
    /\ i = 0 /\ cur_addr = 0
    /\ sourcecaves_total_size = 0
    /\ valid_breakpoint_count = 0
    /\ total_valid_addrs = 0
    /\ breakpoint_total_size = <<>>
    /\ callcaves_total_size = 0
    /\ cave_bases = <<Zero32, Zero32>>
    /\ cave_source = Fill(0, 0)
    /\ cave_call = Fill(0, 0)
    /\ sourcecave_p = 0 /\ callcave_p = 0
    /\ asm_buf = Fill(0, 0)
    /\ current_asm_buf_size = 0
    /\ protect = "none"
    /\ retval = -1
    /\ fault = "none"
    /\ sites = <<>>

(***************************************************************************)
(* Construction of a description: breakpoint_from_json, and the handler    *)
(* lookup of breakpoint_local_init.  A string is the sequence of its       *)
(* characters, without the terminating NUL.                                *)
(***************************************************************************)
\* Largest cavesize a configuration of the model asks for.
MaxCavesize == 7

\* "codecave:"
Codecave == <<"c", "o", "d", "e", "c", "a", "v", "e", ":">>

\* "BP_"
BP_ == <<"B", "P", "_">>

\* The names of the model: with and without '#' suffixes, with and without
\* the "codecave:" prefix, the empty name, a name that is a proper prefix of
\* "codecave:".
NameChoices ==
    { <<"a", "b">>, <<"a", "b", "#", "1">>, <<"a", "b", "#", "2", "#", "3">>,
      <<"a">>, <<>>, <<"#", "a">>, <<"c", "o", "d", "e">>,
      Codecave \o <<"a", "b">>, Codecave \o <<"a", "b", "#", "1">>,
      Codecave \o <<"a", "b", "#", "2">>,
      Codecave \o <<"a", "b", "#", "1", "2", "3", "4">> }

\* The keys under which a function is registered.
Registered ==
    { BP_ \o <<"a", "b">>, BP_ \o <<"a">>, Codecave \o <<"a", "b">>,
      Codecave \o <<"a", "b", "#", "1">> }

\* nullptr as a function pointer
NullFunc == <<>>

\* func_get(key): the function registered under key, or nullptr.
func_get(key) == IF key \in Registered THEN <<"f">> \o key ELSE NullFunc

\* strlen(str)
strlen(str) == Len(str)

\* strchr(str, c): the position (from 1) of the first c in str, 0 for NULL.
strchr(str, c) ==
    IF \E k \in 1..Len(str) : str[k] = c
    THEN CHOOSE k \in 1..Len(str) :
             str[k] = c /\ \A j \in 1..(k - 1) : str[j] # c
    ELSE 0

\* strncmp(str, prefix, strlen(prefix)) == 0
StartsWith(str, prefix) ==
    Len(str) >= Len(prefix) /\ SubSeq(str, 1, Len(prefix)) = prefix

\* key_len = slot ? (size_t)(slot - key) : strlen(key)
KeyLen(key) ==
    LET slot == strchr(key, "#")
    IN  IF slot # 0 THEN slot - 1 ELSE strlen(key)

\* The size of the key buffer: strlen("BP_") + key_len + 1
BpKeySize(key) == strlen(BP_) + KeyLen(key) + 1

\* The string the key buffer is filled with.
BpKey(key) ==
    IF ~StartsWith(key, Codecave)
    THEN BP_ \o SubSeq(key, 1, KeyLen(key))    \* strcpy "BP_", strncat key_len
    ELSE key                                    \* strcpy(bp_key, key)

\* The bytes written into the key buffer: the string and its NUL.
BpKeyWritten(key) == strlen(BpKey(key)) + 1

\* JSON values.  A value that is not an object has no members.
Absent == [type |-> "absent", val |-> 0]

CavesizeChoices ==
    {Absent, [type |-> "array", val |-> 0], [type |-> "true", val |-> 0]}
    \cup [type : {"integer", "string"}, val : 0..MaxCavesize]

\* The elements of an "addr" array: an integer, a string naming an
\* address, or a value of another type.
AddrElem(t) == [type |-> t, val |-> IF t = "integer" THEN HostAddr(16) ELSE Zero32]

AddrChoices ==
    { [present |-> FALSE, elems |-> <<>>],
      [present |-> TRUE, elems |-> <<>>],
      [present |-> TRUE, elems |-> <<AddrElem("object"), AddrElem("null")>>],
      [present |-> TRUE, elems |-> <<AddrElem("integer")>>],
      [present |-> TRUE,
       elems |-> <<AddrElem("string"), AddrElem("null"), AddrElem("integer")>>] }

JsonChoices ==
    [kind : {"null", "array", "string"}, ignore : {"absent"},
     cavesize : {Absent}, addr : {[present |-> FALSE, elems |-> <<>>]}]
    \cup [kind : {"object"}, ignore : {"absent", "false", "true"},
          cavesize : CavesizeChoices, addr : AddrChoices]

\* json_is_object(json)
json_is_object(json) == json.kind = "object"

\* json_object_get_eval_bool_default(json, "ignore", false, JEVAL_DEFAULT)
json_object_get_eval_bool_default(json) == json.ignore = "true"

\* json_object_get_eval_int(json, "cavesize", &cavesize, JEVAL_STRICT)
json_object_get_eval_int(json) ==
    CASE json.cavesize.type = "absent" ->
             [code |-> "JEVAL_NULL_PTR", val |-> 0]
      [] json.cavesize.type \in {"integer", "string"} ->
             [code |-> "JEVAL_SUCCESS", val |-> json.cavesize.val]
      [] OTHER -> [code |-> "JEVAL_ERROR", val |-> 0]

\* hackpoint_addrs_from_json(json_object_get(json, "addr")): the entries
\* made of the integers and strings of the array; NULL (the empty
\* sequence) when there is no array or none of its elements is one.
hackpoint_addrs_from_json(addr) ==
    LET kept == SelectSeq(addr.elems, LAMBDA e : e.type \in {"integer", "string"})
    IN  [k \in 1..Len(kept) |->
            IF kept[k].type = "integer" THEN RawEntry(kept[k].val)
            ELSE [type |-> "STR_ADDR", raw |-> Zero32]]

\* Mutant of CavesizeTooSmall: the bound is off by one.
CavesizeTooSmall_OffByOne(cavesize) == cavesize < CALL_LEN - 1

\* cavesize < CALL_LEN
CavesizeTooSmall(cavesize) == cavesize < CALL_LEN

\* breakpoint_from_json(name, json, o): what it returns, what it leaves in
\* *out, and whether it took a reference to json.
breakpoint_from_json(name, json, o) ==
    LET failed == [ret |-> FALSE, out |-> o, incref |-> 0]
        cs == json_object_get_eval_int(json)
        addrs == hackpoint_addrs_from_json(json.addr)
    IN  IF ~json_is_object(json) THEN failed
        ELSE IF json_object_get_eval_bool_default(json) THEN failed
        ELSE IF cs.code # "JEVAL_SUCCESS" THEN failed
        ELSE IF CavesizeTooSmall(cs.val) THEN failed
        ELSE IF addrs = <<>> THEN failed
        ELSE [ret |-> TRUE,
              out |-> [name |-> name, cavesize |-> cs.val, json_obj |-> json,
                       func |-> NullFunc, addr |-> addrs],
              incref |-> 1]

FromJson ==
    /\ cpc = "start"
    /\ LET r == breakpoint_from_json(bp_name, json_in, out)
       IN  /\ result' = r.ret
           /\ out' = r.out
           /\ json_refs' = json_refs + r.incref
           /\ cpc' = IF r.ret THEN "constructed" ELSE "failed"
    /\ UNCHANGED <<bp_name, json_in, out0, bp_key, bp_key_size, bp_key_written,
                   func_found>>
    /\ UNCHANGED <<applyVars, dispVars, cmp, restVars>>

\* breakpoint_local_init(&out).  A write past the end of the key buffer is
\* undefined: the call either goes on with the string it wrote or faults.
LocalInit ==
    /\ cpc = "constructed"
    /\ bp_key_size' = BpKeySize(out.name)
    /\ bp_key_written' = BpKeyWritten(out.name)
    /\ bp_key' = BpKey(out.name)
    /\ \E outcome \in IF bp_key_written' > bp_key_size'
                       THEN {"goes on", "faults"} ELSE {"goes on"} :
         IF outcome = "faults"
         THEN /\ cpc' = "crashed"
              /\ UNCHANGED <<out, func_found>>
         ELSE /\ out' = [out EXCEPT !.func = func_get(bp_key')]
              /\ func_found' = (out'.func # NullFunc)
              /\ cpc' = "inited"
    /\ UNCHANGED <<bp_name, json_in, json_refs, out0, result>>
    /\ UNCHANGED <<applyVars, dispVars, cmp, restVars>>

\* *out before breakpoint_from_json: not initialised, or a description
\* constructed earlier.
OutChoices ==
    { [name |-> <<"?">>, cavesize |-> 0, json_obj |-> Absent,
       func |-> <<"?">>, addr |-> <<>>],
      [name |-> <<"z">>, cavesize |-> CALL_LEN, json_obj |-> Absent,
       func |-> NullFunc, addr |-> <<RawEntry(HostAddr(0))>>] }

ConsInit ==
    /\ cpc = "start"
    /\ bp_name \in NameChoices
    /\ json_in \in JsonChoices
    /\ json_refs = 1
    /\ out0 \in OutChoices
    /\ out = out0
    /\ result = FALSE
    /\ bp_key = <<>> /\ bp_key_size = 0 /\ bp_key_written = 0
    /\ func_found = FALSE

ConsNext ==
    \/ FromJson
    \/ LocalInit

\* No description is constructed in the runs of the other specifications.
ConsIdle ==
    /\ cpc = "idle"
    /\ bp_name = <<>>
    /\ json_in = [kind |-> "null", ignore |-> "absent", cavesize |-> Absent,
                  addr |-> [present |-> FALSE, elems |-> <<>>]]
    /\ json_refs = 0
    /\ out0 = [name |-> <<>>, cavesize |-> 0, json_obj |-> Absent,
               func |-> NullFunc, addr |-> <<>>]
    /\ out = out0
    /\ result = FALSE
    /\ bp_key = <<>> /\ bp_key_size = 0 /\ bp_key_written = 0
    /\ func_found = FALSE

(***************************************************************************)
(* File::download, called by several threads on one File                   *)
(***************************************************************************)
\* The number of threads that call download on the file.
NThreads == 3

\* The largest number of write callbacks of one transfer.
MaxChunks == 1

Threads == 1..NThreads

notFile ==
    <<applyVars, dispVars, cmp, consVars, spriteVars, loadVars, thtxVars>>

\* std::atomic::compare_exchange_strong: the value after the call.
compare_exchange_strong(cur, expected, desired) ==
    IF cur = expected THEN desired ELSE cur

\* Mutant of SetDownloadingFrom: a failed file is downloaded again.
SetDownloadingFrom_Failed == "FAILED"

\* The status setDownloading exchanges for DOWNLOADING.
SetDownloadingFrom == "TODO"

\* Mutant of SetFailedFrom: a failure replaces DONE.
SetFailedFrom_Done == "DONE"

\* The status setFailed exchanges for FAILED.
SetFailedFrom == "DOWNLOADING"

\* Mutant of CommitOnFailed: the data is committed whatever the status.
CommitOnFailed_Always(st) == st = st

\* The second test of the commit: another thread failed, this one succeeded.
CommitOnFailed(st) == st = "FAILED"

At(t, where) == tpc' = [tpc EXCEPT ![t] = where]

\* A thread calls File::download.
Call(t) ==
    /\ tpc[t] = "idle"
    /\ At(t, "cas")
    /\ UNCHANGED <<status, data, data_mutex, local_data, ret, ret_status,
                   data_assigns, finishers>>
    /\ UNCHANGED notFile

\* setDownloading: the compare-exchange from TODO.
SetDownloadingCas(t) ==
    /\ tpc[t] = "cas"
    /\ status' = compare_exchange_strong(status, SetDownloadingFrom, "DOWNLOADING")
    /\ At(t, IF status = SetDownloadingFrom THEN "perform" ELSE "load")
    /\ UNCHANGED <<data, data_mutex, local_data, ret, ret_status, data_assigns,
                   finishers>>
    /\ UNCHANGED notFile

\* setDownloading: the exchange failed and the status is read again; when
\* it is not DOWNLOADING setDownloading returns false and download returns
\* true.
SetDownloadingLoad(t) ==
    /\ tpc[t] = "load"
    /\ At(t, IF status = "DOWNLOADING" THEN "perform" ELSE "return_true")
    /\ UNCHANGED <<status, data, data_mutex, local_data, ret, ret_status,
                   data_assigns, finishers>>
    /\ UNCHANGED notFile

\* writeCallback during curl_easy_perform: with status DONE it returns 0,
\* which makes the transfer end with an error; otherwise the bytes are
\* appended to the local data of the thread.
WriteCallback(t) ==
    /\ tpc[t] = "perform" /\ Len(local_data[t]) < MaxChunks
    /\ IF status = "DONE"
       THEN At(t, "set_failed") /\ UNCHANGED local_data
       ELSE /\ local_data' = [local_data EXCEPT ![t] = Append(@, t)]
            /\ UNCHANGED tpc
    /\ UNCHANGED <<status, data, data_mutex, ret, ret_status, data_assigns,
                   finishers>>
    /\ UNCHANGED notFile

\* curl_easy_perform returns: with an error, with a response code other
\* than 200, or with success.
PerformEnd(t) ==
    /\ tpc[t] = "perform"
    /\ \E outcome \in {"CURLE_OK 200", "CURLE_OK 404", "CURLE_error"} :
          At(t, IF outcome = "CURLE_OK 200" THEN "lock" ELSE "set_failed")
    /\ UNCHANGED <<status, data, data_mutex, local_data, ret, ret_status,
                   data_assigns, finishers>>
    /\ UNCHANGED notFile

\* setFailed, after which download returns false.
SetFailed(t) ==
    /\ tpc[t] = "set_failed"
    /\ status' = compare_exchange_strong(status, SetFailedFrom, "FAILED")
    /\ At(t, "return_false")
    /\ UNCHANGED <<data, data_mutex, local_data, ret, ret_status, data_assigns,
                   finishers>>
    /\ UNCHANGED notFile

\* std::lock_guard lock(data_mutex)
Lock(t) ==
    /\ tpc[t] = "lock" /\ data_mutex = 0
    /\ data_mutex' = t
    /\ finishers' = Append(finishers, t)
    /\ At(t, "check_downloading")
    /\ UNCHANGED <<status, data, local_data, ret, ret_status, data_assigns>>
    /\ UNCHANGED notFile

\* status == DOWNLOADING
CheckDownloading(t) ==
    /\ tpc[t] = "check_downloading"
    /\ At(t, IF status = "DOWNLOADING" THEN "assign" ELSE "check_failed")
    /\ UNCHANGED <<status, data, data_mutex, local_data, ret, ret_status,
                   data_assigns, finishers>>
    /\ UNCHANGED notFile

\* || status == FAILED
CheckFailed(t) ==
    /\ tpc[t] = "check_failed"
    /\ At(t, IF CommitOnFailed(status) THEN "assign" ELSE "unlock")
    /\ UNCHANGED <<status, data, data_mutex, local_data, ret, ret_status,
                   data_assigns, finishers>>
    /\ UNCHANGED notFile

\* data = std::move(local_data)
AssignData(t) ==
    /\ tpc[t] = "assign"
    /\ data' = local_data[t]
    /\ local_data' = [local_data EXCEPT ![t] = <<>>]
    /\ data_assigns' = Append(data_assigns, t)
    /\ At(t, "store")
    /\ UNCHANGED <<status, data_mutex, ret, ret_status, finishers>>
    /\ UNCHANGED notFile

\* status = DONE
StoreDone(t) ==
    /\ tpc[t] = "store"
    /\ status' = "DONE"
    /\ At(t, "unlock")
    /\ UNCHANGED <<data, data_mutex, local_data, ret, ret_status, data_assigns,
                   finishers>>
    /\ UNCHANGED notFile

\* The lock_guard goes out of scope.
Unlock(t) ==
    /\ tpc[t] = "unlock"
    /\ data_mutex' = 0
    /\ At(t, "return_true")
    /\ UNCHANGED <<status, data, local_data, ret, ret_status, data_assigns,
                   finishers>>
    /\ UNCHANGED notFile

\* download returns to its caller.
Return(t) ==
    /\ tpc[t] \in {"return_true", "return_false"}
    /\ ret' = [ret EXCEPT ![t] = IF tpc[t] = "return_true" THEN "true" ELSE "false"]
    /\ ret_status' = [ret_status EXCEPT ![t] = status]
    /\ At(t, "returned")
    /\ UNCHANGED <<status, data, data_mutex, local_data, data_assigns, finishers>>
    /\ UNCHANGED notFile

\* A File as its constructor leaves it, no thread in download yet.
FileInit ==
    /\ status = "TODO"
    /\ data = <<>>
    /\ data_mutex = 0
    /\ tpc = [t \in Threads |-> "idle"]
    /\ local_data = [t \in Threads |-> <<>>]
    /\ ret = [t \in Threads |-> "none"]
    /\ ret_status = [t \in Threads |-> "none"]
    /\ data_assigns = <<>>
    /\ finishers = <<>>

FileNext ==
    \E t \in Threads :
        \/ Call(t)
        \/ SetDownloadingCas(t)
        \/ SetDownloadingLoad(t)
        \/ WriteCallback(t)
        \/ PerformEnd(t)
        \/ SetFailed(t)
        \/ Lock(t)
        \/ CheckDownloading(t)
        \/ CheckFailed(t)
        \/ AssignData(t)
        \/ StoreDone(t)
        \/ Unlock(t)
        \/ Return(t)

\* No file is downloaded in the runs of the other specifications.
FileIdle ==
    /\ status = "TODO"
    /\ data = <<>>
    /\ data_mutex = 0
    /\ tpc = <<>> /\ local_data = <<>> /\ ret = <<>> /\ ret_status = <<>>
    /\ data_assigns = <<>>
    /\ finishers = <<>>

(***************************************************************************)
(* Text image sprites: textimage_commit and its callers                    *)
(***************************************************************************)
\* sprite_spec_size() of the model.
SpecSize == 8

\* The bytes at the end of a sprite spec that hold the register order.
RegisterOrderSize == 4

\* The sprite numbers textimage_set hands in: none, and the two sprites of
\* the largest image (the second is out of range for the other images).
SpriteNumbers == {-1, 0, 1}

\* The most slots one textimage_set call names.
MaxNamed == 1

\* The most calls of textimage_commit in one run.
MaxCommits == 4

notSprite ==
    <<applyVars, dispVars, cmp, consVars, fileVars, loadVars, thtxVars>>

\* The text images: the slot each belongs to, its number of sprites, its
\* script buffer (0 when it has none) and the specs of its sprites.
Images ==
    << [sprite_slot |-> 0, sprite_count |-> 2, script_buf |-> 0,
        specs |-> [k \in 0..(2 * SpecSize - 1) |-> 100 + k]],
       [sprite_slot |-> 0, sprite_count |-> 1, script_buf |-> 71,
        specs |-> [k \in 0..(SpecSize - 1) |-> 150 + k]],
       [sprite_slot |-> 1, sprite_count |-> 1, script_buf |-> 72,
        specs |-> [k \in 0..(SpecSize - 1) |-> 200 + k]],
       [sprite_slot |-> 2, sprite_count |-> 1, script_buf |-> 0,
        specs |-> [k \in 0..(SpecSize - 1) |-> 220 + k]] >>

\* The sprite slots with runtime data: those for which a text image has
\* been loaded.
Slots == {Images[n].sprite_slot : n \in 1..Len(Images)}

NSlots == Cardinality(Slots)

\* The sprite specs and script pointers of the game itself.
GameSpecs == [k \in 0..(NSlots * SpecSize - 1) |-> 10 + k]

GameScripts == [q \in Slots |-> 61 + q]

\* sprite_runtime_t::would_be_replaced
would_be_replaced(sr) ==
    IF sr.active_ti = 0 \/ sr.active_sprite_on_ti < 0 THEN FALSE
    ELSE IF sr.active_sprite_on_ti >= Images[sr.active_ti].sprite_count THEN FALSE
    ELSE TRUE

\* Mutant of NeedsBackup: the game's data is saved on every replacement.
NeedsBackup_Always(sr) == sr.is_ours \in BOOLEAN

\* Whether commit_sprite saves the game's data before it replaces it.
NeedsBackup(sr) == ~sr.is_ours

\* The number of bytes of a sprite spec that commit_sprite copies.
CopySize == SpecSize - RegisterOrderSize

\* commit_sprite(sr, set) on the state st = [specs, scripts, map], sr being
\* the runtime data of slot q.
commit_sprite(st, q, set) ==
    LET sr == st.map[q]
        game_sprite_p == sr.sprite_slot * SpecSize
        saved == IF set /\ NeedsBackup(sr)
                 THEN [sr EXCEPT !.spec_game =
                                     WriteBytes(@, 0, ReadBytes(st.specs, game_sprite_p,
                                                                CopySize)),
                                 !.script_game = st.scripts[sr.sprite_slot]]
                 ELSE sr
        ti == Images[sr.active_ti]
        our_sprite_p == sr.active_sprite_on_ti * SpecSize
    IN  IF set
        THEN [specs |-> WriteBytes(st.specs, game_sprite_p,
                                   ReadBytes(ti.specs, our_sprite_p, CopySize)),
              scripts |-> IF ti.script_buf # 0
                          THEN [st.scripts EXCEPT ![sr.sprite_slot] = ti.script_buf]
                          ELSE st.scripts,
              map |-> [st.map EXCEPT ![q] = [saved EXCEPT !.is_ours = TRUE]]]
        ELSE [specs |-> IF sr.is_ours
                        THEN WriteBytes(st.specs, game_sprite_p,
                                        ReadBytes(sr.spec_game, 0, CopySize))
                        ELSE st.specs,
              scripts |-> IF sr.is_ours
                          THEN [st.scripts EXCEPT ![sr.sprite_slot] = sr.script_game]
                          ELSE st.scripts,
              map |-> [st.map EXCEPT ![q] = [sr EXCEPT !.is_ours = FALSE]]]

\* commit_sprite for the members of one group from member n on.
RECURSIVE CommitGroup(_, _, _, _)
CommitGroup(st, group, n, set) ==
    IF n > Len(group) THEN st
    ELSE CommitGroup(commit_sprite(st, group[n], set), group, n + 1, set)

\* The loop over the groups from group g on.
RECURSIVE CommitGroups(_, _, _)
CommitGroups(st, gs, g) ==
    IF g > Len(gs) THEN st
    ELSE LET got_all_of_them ==
                 \A n \in 1..Len(gs[g]) : would_be_replaced(st.map[gs[g][n]])
         IN  CommitGroups(CommitGroup(st, gs[g], 1, got_all_of_them), gs, g + 1)

\* The loop over the sprite runtime map from slot q on.
RECURSIVE CommitSingles(_, _)
CommitSingles(st, q) ==
    IF q >= NSlots THEN st
    ELSE CommitSingles(IF ~st.map[q].in_group
                       THEN commit_sprite(st, q, would_be_replaced(st.map[q]))
                       ELSE st,
                       q + 1)

\* textimage_commit()
textimage_commit(st, gs) == CommitSingles(CommitGroups(st, gs, 1), 0)

\* The state textimage_commit works on, with the runtime map m.
SpriteState(m) == [specs |-> SpriteSpecs, scripts |-> SpriteScripts, map |-> m]

Committed(st) ==
    /\ SpriteSpecs' = st.specs
    /\ SpriteScripts' = st.scripts
    /\ SpriteRuntimeMap' = st.map
    /\ commits' = commits + 1
    /\ UNCHANGED Groups
    /\ UNCHANGED notSprite

\* textimage_t::reload for a slot: the active image of the slot becomes one
\* of its images, or none when loading fails without a fallback; then
\* textimage_commit.
Reload ==
    /\ commits < MaxCommits
    /\ \E q \in Slots :
       \E ti \in {0} \cup {n \in 1..Len(Images) : Images[n].sprite_slot = q} :
          Committed(textimage_commit(
              SpriteState([SpriteRuntimeMap EXCEPT ![q].active_ti = ti]), Groups))

\* The textimage_set breakpoint: sprite numbers for some slots, then
\* textimage_commit.
TextimageSet ==
    /\ commits < MaxCommits
    /\ \E named \in {n \in SUBSET Slots : Cardinality(n) <= MaxNamed} :
       \E sprites \in [named -> SpriteNumbers] :
          Committed(textimage_commit(
              SpriteState([q \in Slots |->
                  IF q \notin named THEN SpriteRuntimeMap[q]
                  ELSE [SpriteRuntimeMap[q] EXCEPT
                            !.active_sprite_on_ti = sprites[q]]]), Groups))

\* The runtime data of a slot as its initializers leave it; the backup
\* fields hold whatever fill they were created with.
SpriteRuntime(q, grouped, fill) ==
    [sprite_slot |-> q, active_ti |-> 0, active_sprite_on_ti |-> -1,
     is_ours |-> FALSE, in_group |-> grouped,
     spec_game |-> Fill(SpecSize, fill), script_game |-> 0]

SpriteInit ==
    /\ SpriteSpecs = GameSpecs
    /\ SpriteScripts = GameScripts
    /\ Groups = <<>>
    /\ SpriteRuntimeMap = [q \in Slots |-> SpriteRuntime(q, FALSE, x86_INT3)]
    /\ commits = 0

\* The "groups" arrays handed to BP_textimage_load: no group, one group,
\* two groups that share slot 1, and an array with a group of one member.
GroupsChoices ==
    { <<>>, << <<0, 1>> >>, << <<1, 2>> >>, << <<0, 1>>, <<1, 2>> >>,
      << <<2>>, <<0, 1>> >> }

\* The groups that BP_textimage_load registers for the array gs: those
\* with fewer than 2 members are skipped.
RECURSIVE RegisteredGroups(_)
RegisteredGroups(gs) ==
    IF gs = <<>> THEN <<>>
    ELSE IF Len(Head(gs)) < 2 THEN RegisteredGroups(Tail(gs))
    ELSE <<Head(gs)>> \o RegisteredGroups(Tail(gs))

\* Slot q is a member of one of the groups gs.
InSomeGroup(gs, q) ==
    \E g \in 1..Len(gs) : \E n \in 1..Len(gs[g]) : gs[g][n] = q

\* BP_textimage_load with a "groups" array and no images: groups_clear, then
\* every member of a registered group gets in_group = true.  The flag of a
\* slot that was in a group before is left as it is.
LoadGroups ==
    /\ \E gs \in GroupsChoices :
          /\ Groups' = RegisteredGroups(gs)
          /\ SpriteRuntimeMap' =
                [q \in Slots |->
                    IF InSomeGroup(Groups', q)
                    THEN [SpriteRuntimeMap[q] EXCEPT !.in_group = TRUE]
                    ELSE SpriteRuntimeMap[q]]
    /\ UNCHANGED <<SpriteSpecs, SpriteScripts, commits>>
    /\ UNCHANGED notSprite

SpriteNext ==
    \/ Reload
    \/ TextimageSet
    \/ LoadGroups

\* No text image is used in the runs of the other specifications.
SpriteIdle ==
    /\ SpriteSpecs = <<>> /\ SpriteScripts = <<>> /\ SpriteRuntimeMap = <<>>
    /\ Groups = <<>>
    /\ commits = 0

(***************************************************************************)
(* Text images: BP_textimage_load, textimage_t::create and ::reload        *)
(***************************************************************************)
\* The most textimage_t instances created in one run.
MaxInstances == 3

\* The sprite slots the image declarations name.
LoadSlots == {0, 1}

\* The file names of the image declarations.
FileNames == {"a", "b"}

\* The "images" entries that declare images: a slot and the file names of
\* its images, lowest priority first. File "b" is declared for either slot.
Declarations ==
    { <<0, <<"a">> >>, <<0, <<"b">> >>, <<0, <<"a", "b">> >>, <<1, <<"b">> >> }

\* The priorities of the images: the positions in a declaration of at most
\* two images.
Priorities == {0, 1}

\* The number of sprites on every image file that loads.
SpritesInFile == 1

\* The sprite numbers textimage_set hands in: none, and the first sprite.
LoadSprites == {-1, 0}

notLoad ==
    <<applyVars, dispVars, cmp, consVars, fileVars, spriteVars, thtxVars>>

\* The state the functions below work on: the instances, the vector Images,
\* the active image and the sprite number of each slot, the texture slots,
\* the image whose sprite the game shows in each slot, whether a deleted instance was dereferenced,
\* and the images reloaded as the fallback of a failed one.
LoadState ==
    [inst |-> Instances, vec |-> ImageList, active |-> ActiveTi,
     sprite |-> ActiveSprite, tex |-> TextureSlots, shown |-> Shown, uaf |-> uaf, fell |-> {}]

\* A dereference of the pointer p.
Deref(st, p) ==
    IF st.inst[p].live THEN st ELSE [st EXCEPT !.uaf = TRUE]

\* The value read from p->priority; what a read of a deleted instance gives
\* is open (stale).
PriorityRead(st, p, stale) ==
    IF st.inst[p].live THEN st.inst[p].priority ELSE stale

\* The value read from p->sprite_count.
SpriteCountRead(st, p, stale) ==
    IF st.inst[p].live THEN st.inst[p].sprite_count ELSE stale

\* sprite_runtime_t::would_be_replaced() of slot q.
WouldBeReplaced(st, q, stale) ==
    /\ st.active[q] # 0
    /\ st.sprite[q] >= 0
    /\ st.sprite[q] < SpriteCountRead(st, st.active[q], stale)

\* textimage_commit() without groups: every slot shows the chosen sprite of
\* its active image, or the sprite of the game.
CommitActive(st, stale) ==
    [st EXCEPT
        !.shown = [q \in LoadSlots |->
                      IF WouldBeReplaced(st, q, stale) THEN st.active[q]
                      ELSE 0],
        !.uaf = @ \/ \E q \in LoadSlots :
                        st.active[q] # 0 /\ ~st.inst[st.active[q]].live]

\* The test at the head of reload: the active image of the slot has a
\* higher priority than this one.
LowerPriority(active_priority, priority) == active_priority > priority

\* textimage_t::reload(fallback_on_failure) of instance this, where the
\* files in avail load. Gives the state after the call and its result.
RECURSIVE reload(_, _, _, _, _)
reload(st, this, fallback_on_failure, avail, stale) ==
    LET s0 == Deref(st, this)
        me == st.inst[this]
        q == me.sprite_slot
        a == st.active[q]
        s1 == IF a # 0 THEN Deref(s0, a) ELSE s0
    IN  IF a # 0 /\ LowerPriority(PriorityRead(st, a, stale),
                                  PriorityRead(st, this, stale))
        THEN [st |-> s1, hr |-> -1]
        ELSE IF me.fn \notin avail
        THEN IF me.lower # 0
             THEN IF fallback_on_failure
                  THEN LET r == reload(
                                  [s1 EXCEPT !.tex[me.texture_slot] = 0,
                                             !.active[q] = 0,
                                             !.fell = @ \cup {me.lower}],
                                  me.lower, fallback_on_failure, avail, stale)
                       IN  [st |-> CommitActive(r.st, stale), hr |-> r.hr]
                  ELSE [st |-> CommitActive(s1, stale), hr |-> -1]
             ELSE [st |-> CommitActive(
                              [s1 EXCEPT !.tex[me.texture_slot] = 0,
                                         !.active[q] = 0], stale),
                   hr |-> -1]
        ELSE [st |-> CommitActive(
                         [s1 EXCEPT !.inst[this].sprite_count = SpritesInFile,
                                    !.tex[me.texture_slot] = this,
                                    !.active[q] = this], stale),
              hr |-> 0]

\* image_get(fn): the index in Images of the first image with this file
\* name, or 0.
image_get(st, fn) ==
    LET hits == {n \in 1..Len(st.vec) : st.inst[st.vec[n]].fn = fn}
    IN  IF hits = {} THEN 0 ELSE CHOOSE n \in hits : \A m \in hits : n <= m

\* textimage_t::create: a new instance above lower.
create(st, q, priority, fn, lower) ==
    LET img == [fn |-> fn, priority |-> priority, texture_slot |-> q,
                sprite_slot |-> q, sprite_count |-> 0, lower |-> lower,
                higher |-> 0, live |-> TRUE]
        id == Len(st.inst) + 1
    IN  [st EXCEPT !.inst = IF lower # 0
                            THEN [Append(@, img) EXCEPT ![lower].higher = id]
                            ELSE Append(@, img)]

\* The loop of BP_textimage_load over the declarations descs of slot q,
\* from position priority on: create, replace the image of the same file
\* name or push, reload.
RECURSIVE DefineImages(_, _, _, _, _, _, _)
DefineImages(st, q, descs, priority, image_last, avail, stale) ==
    IF priority >= Len(descs) THEN st
    ELSE LET fn == descs[priority + 1]
             id == Len(st.inst) + 1
             s1 == create(st, q, priority, fn, image_last)
             old_index == image_get(s1, fn)
             s2 == IF old_index # 0
                   THEN [s1 EXCEPT
                           !.inst[s1.vec[old_index]].live = FALSE,
                           !.vec[old_index] = id]
                   ELSE [s1 EXCEPT !.vec = Append(@, id)]
         IN  DefineImages(reload(s2, id, FALSE, avail, stale).st, q, descs,
                          priority + 1, id, avail, stale)

\* image_foreach_on_top from index n on: reload, with fallback, the images
\* of slot q that have no higher image.
RECURSIVE ReloadOnTop(_, _, _, _, _)
ReloadOnTop(st, q, n, avail, stale) ==
    IF n > Len(st.vec) THEN st
    ELSE LET p == st.vec[n]
         IN  IF st.inst[p].higher = 0 /\ st.inst[p].sprite_slot = q
             THEN ReloadOnTop(reload(st, p, TRUE, avail, stale).st, q, n + 1,
                              avail, stale)
             ELSE ReloadOnTop(st, q, n + 1, avail, stale)

\* The state after a call, and what the call was.
Loaded(st, call) ==
    /\ Instances' = st.inst
    /\ ImageList' = st.vec
    /\ ActiveTi' = st.active
    /\ ActiveSprite' = st.sprite
    /\ TextureSlots' = st.tex
    /\ Shown' = st.shown
    /\ uaf' = st.uaf
    /\ last' = call

\* The outcomes of one call that the program does not decide: the files
\* that load, and what a read of a deleted instance gives.
Outcomes == (SUBSET FileNames) \X Priorities

\* BP_textimage_load with "images": { "<q>": [ declarations ] }.
LoadDefine ==
    /\ \E d \in Declarations, o \in Outcomes :
          /\ Len(Instances) + Len(d[2]) <= MaxInstances
          /\ Loaded(DefineImages(LoadState, d[1], d[2], 0, 0, o[1], o[2]),
                    [op |-> "define", image |-> 0, hr |-> 0, fell |-> {}])
    /\ UNCHANGED notLoad

\* BP_textimage_load with "images": { "<file name>": true }.
LoadReloadImage ==
    /\ \E fn \in FileNames, o \in Outcomes :
          /\ image_get(LoadState, fn) # 0
          /\ LET this == ImageList[image_get(LoadState, fn)]
                 r == reload(LoadState, this, FALSE, o[1], o[2])
             IN  Loaded(r.st, [op |-> "image", image |-> this, hr |-> r.hr,
                               fell |-> r.st.fell])
    /\ UNCHANGED notLoad

\* BP_textimage_load with "images": { "<q>": true }.
LoadReloadSlot ==
    /\ \E q \in LoadSlots, o \in Outcomes :
          LET st == ReloadOnTop(LoadState, q, 1, o[1], o[2])
          IN  Loaded(st, [op |-> "slot", image |-> 0, hr |-> 0,
                          fell |-> st.fell])
    /\ UNCHANGED notLoad

\* BP_textimage_set with "sprites": { "<q>": number }; the slot has its
\* runtime data once an image was declared for it.
LoadSet ==
    /\ \E q \in LoadSlots, number \in LoadSprites, stale \in Priorities :
          /\ \E p \in 1..Len(Instances) : Instances[p].sprite_slot = q
          /\ Loaded(CommitActive([LoadState EXCEPT !.sprite[q] = number],
                                 stale),
                    [op |-> "set", image |-> 0, hr |-> 0, fell |-> {}])
    /\ UNCHANGED notLoad

\* After BP_textimage_init: no image is declared.
LoadInit ==
    /\ Instances = <<>>
    /\ ImageList = <<>>
    /\ ActiveTi = [q \in LoadSlots |-> 0]
    /\ ActiveSprite = [q \in LoadSlots |-> -1]
    /\ TextureSlots = [q \in LoadSlots |-> 0]
    /\ Shown = [q \in LoadSlots |-> 0]
    /\ uaf = FALSE
    /\ last = [op |-> "init", image |-> 0, hr |-> 0, fell |-> {}]

LoadNext ==
    \/ LoadDefine
    \/ LoadReloadImage
    \/ LoadReloadSlot
    \/ LoadSet

\* No text image is declared in the runs of the other specifications.
LoadIdle ==
    /\ Instances = <<>> /\ ImageList = <<>> /\ ActiveTi = <<>>
    /\ ActiveSprite = <<>> /\ TextureSlots = <<>> /\ Shown = <<>>
    /\ uaf = FALSE
    /\ last = <<>>

(***************************************************************************)
(* patch_thtx (src/thcrap_tsa/src/anm.c)                                   *)
(***************************************************************************)
\* The largest width and height of an image and of a texture, and the
\* largest start position.
MaxDim == 2

\* The texture formats.
Formats == {"BGRA8888", "ARGB4444", "GRAY8", "unknown"}

\* format_Bpp(format)
format_Bpp(format) ==
    CASE format = "BGRA8888" -> 4
      [] format \in {"ARGB4444", "RGB565"} -> 2
      [] format = "GRAY8" -> 1
      [] OTHER -> 0

\* min(a, b)
min(a, b) == IF a < b THEN a ELSE b

\* The bytes from p on, count of them.
Range(p, count) == {p + k : k \in 0..(count - 1)}

\* thtx->size of a texture of w * h pixels.
ThtxSize(t) == t.w * t.h * format_Bpp(t.format)

\* The calls of patch_thtx: a texture, a start position, and an image that
\* has a buffer.
PatchCalls ==
    [thtx : [w : 1..MaxDim, h : 1..MaxDim, format : Formats],
     x : 0..MaxDim, y : 0..MaxDim,
     image : [width : 1..MaxDim, height : 1..MaxDim]]

notThtx ==
    <<applyVars, dispVars, cmp, consVars, fileVars, spriteVars, loadVars>>

\* Nothing is copied: x or y is outside the image.
PatchReject ==
    /\ ppc = "call"
    /\ args.x >= args.image.width \/ args.y >= args.image.height
    /\ ppc' = "done"
    /\ patch_ret' = -1
    /\ UNCHANGED <<args, row, in_p, out_p, reads, writes>>
    /\ UNCHANGED notThtx

\* The whole image is copied at once.
PatchWhole ==
    /\ ppc = "call"
    /\ ~(args.x >= args.image.width \/ args.y >= args.image.height)
    /\ args.x = 0 /\ args.y = 0
    /\ args.thtx.w = args.image.width /\ args.thtx.h = args.image.height
    /\ reads' = Range(0, ThtxSize(args.thtx))
    /\ writes' = Range(0, ThtxSize(args.thtx))
    /\ ppc' = "done"
    /\ patch_ret' = 0
    /\ UNCHANGED <<args, row, in_p, out_p>>
    /\ UNCHANGED notThtx

\* The copy goes row after row: in and out before the first row.
PatchRows ==
    /\ ppc = "call"
    /\ ~(args.x >= args.image.width \/ args.y >= args.image.height)
    /\ ~(/\ args.x = 0 /\ args.y = 0
         /\ args.thtx.w = args.image.width /\ args.thtx.h = args.image.height)
    /\ in_p' = args.y * args.image.width * format_Bpp(args.thtx.format)
    /\ out_p' = 0
    /\ row' = 0
    /\ ppc' = "rows"
    /\ UNCHANGED <<args, reads, writes, patch_ret>>
    /\ UNCHANGED notThtx

\* The byte where the memcpy of a row starts to read.
RowSource(in, x, bpp) == in + (x * bpp)

\* One row of the loop.
PatchRow ==
    /\ ppc = "rows"
    /\ row < min(args.thtx.h, args.image.height - args.y)
    /\ LET bpp == format_Bpp(args.thtx.format)
           png_stride == args.image.width * bpp
           thtx_stride == args.thtx.w * bpp
       IN  /\ reads' = reads \cup Range(RowSource(in_p, args.x, bpp),
                                       min(png_stride, thtx_stride))
           /\ writes' = writes \cup Range(out_p, min(png_stride, thtx_stride))
           /\ in_p' = in_p + png_stride
           /\ out_p' = out_p + thtx_stride
    /\ row' = row + 1
    /\ UNCHANGED <<args, ppc, patch_ret>>
    /\ UNCHANGED notThtx

\* The end of the loop.
PatchRowsEnd ==
    /\ ppc = "rows"
    /\ ~(row < min(args.thtx.h, args.image.height - args.y))
    /\ ppc' = "done"
    /\ patch_ret' = 0
    /\ UNCHANGED <<args, row, in_p, out_p, reads, writes>>
    /\ UNCHANGED notThtx

\* The entry of patch_thtx.
ThtxInit ==
    /\ args \in PatchCalls
    /\ ppc = "call"
    /\ row = 0 /\ in_p = 0 /\ out_p = 0
    /\ reads = {} /\ writes = {}
    /\ patch_ret = 0

ThtxNext ==
    \/ PatchReject
    \/ PatchWhole
    \/ PatchRows
    \/ PatchRow
    \/ PatchRowsEnd

\* patch_thtx is not called in the runs of the other specifications.
ThtxIdle ==
    /\ args = <<>>
    /\ ppc = "idle"
    /\ row = 0 /\ in_p = 0 /\ out_p = 0
    /\ reads = {} /\ writes = {}
    /\ patch_ret = 0

RestIdle == FileIdle /\ SpriteIdle /\ LoadIdle /\ ThtxIdle


(***************************************************************************)
(* Specifications                                                          *)
(***************************************************************************)
vars == <<applyVars, dispVars, cmp, consVars, restVars>>

\* No second call is compared.
NoCmp == [skip |-> 0, run |-> 1, first |-> <<>>]

\* Setup: one call of breakpoints_apply.
Init == ApplyInit /\ DispIdle /\ cmp = NoCmp /\ ConsIdle /\ RestIdle

Next == ApplyNext

Spec == Init /\ [][Next]_vars

\* Runtime: one dispatch of a breakpoint.
InitDispatch == DispInit /\ ApplyIdle /\ cmp = NoCmp /\ ConsIdle /\ RestIdle

NextDispatch == DispNext

SpecDispatch == InitDispatch /\ [][NextDispatch]_vars

\* Construction of one description and the lookup of its handler.
InitConstruct == ConsInit /\ ApplyIdle /\ DispIdle /\ cmp = NoCmp /\ RestIdle

NextConstruct == ConsNext

SpecConstruct == InitConstruct /\ [][NextConstruct]_vars

\* One File and the threads that download it.
InitFile ==
    /\ FileInit /\ ApplyIdle /\ DispIdle /\ cmp = NoCmp /\ ConsIdle
    /\ SpriteIdle /\ LoadIdle /\ ThtxIdle

SpecFile == InitFile /\ [][FileNext]_vars

\* The sprites of the game and the commits of the text images.
InitSprite ==
    /\ SpriteInit /\ ApplyIdle /\ DispIdle /\ cmp = NoCmp /\ ConsIdle
    /\ FileIdle /\ LoadIdle /\ ThtxIdle

SpecSprite == InitSprite /\ [][SpriteNext]_vars

\* The declarations and reloads of text images.
InitLoad ==
    /\ LoadInit /\ ApplyIdle /\ DispIdle /\ cmp = NoCmp /\ ConsIdle
    /\ FileIdle /\ SpriteIdle /\ ThtxIdle

SpecLoad == InitLoad /\ [][LoadNext]_vars

\* One call of patch_thtx.
InitThtx ==
    /\ ThtxInit /\ ApplyIdle /\ DispIdle /\ cmp = NoCmp /\ ConsIdle
    /\ FileIdle /\ SpriteIdle /\ LoadIdle

SpecThtx == InitThtx /\ [][ThtxNext]_vars

(***************************************************************************)
(* Properties of the setup (breakpoints_apply), checked under Spec         *)
(***************************************************************************)
\* Entry k of description d of the input is a valid PatchSite: the handler
\* is registered, the address is not null and cavesize bytes are mapped.
IsValidEntry(d, k) ==
    /\ d.registered
    /\ d.addr[k].type = "RAW_ADDR"
    /\ d.addr[k].raw # Zero32
    /\ LET o == OffIn(d.addr[k].raw, HostBase)
       IN  o >= 0 /\ o + d.cavesize <= HostLen

\* The valid PatchSites of the input from entry k of description n on, in
\* description order and per-description address order.
RECURSIVE ExpectedFrom(_, _)
ExpectedFrom(n, k) ==
    IF n > Len(breakpoints0) THEN <<>>
    ELSE IF k > Len(breakpoints0[n].addr) THEN ExpectedFrom(n + 1, 1)
    ELSE (IF IsValidEntry(breakpoints0[n], k)
          THEN <<[bp |-> n, entry |-> k]>> ELSE <<>>) \o ExpectedFrom(n, k + 1)

ExpectedSites == ExpectedFrom(1, 1)

SiteKeys == [k \in 1..Len(sites) |-> [bp |-> sites[k].bp, entry |-> sites[k].entry]]

IsPrefix(a, b) == Len(a) <= Len(b) /\ \A k \in 1..Len(a) : a[k] = b[k]

\* The least multiple of 16 that is at least n.
Align16(n) == CHOOSE m \in n..(n + 15) : m % 16 = 0

RECURSIVE SumSlots(_, _)
SumSlots(keys, k) ==
    IF k > Len(keys) THEN 0
    ELSE Align16(breakpoints0[keys[k].bp].cavesize + CALL_LEN) + SumSlots(keys, k + 1)

\* The windows [addr, addr + cavesize) of PatchSites k and l intersect.
Overlaps(k, l) ==
    LET ok == OffIn(sites[k].addr, HostBase)
        ol == OffIn(sites[l].addr, HostBase)
    IN  ok < ol + sites[l].cavesize /\ ol < ok + sites[k].cavesize

\* No PatchSite generated after k has a window that intersects that of k.
NotOverwritten(k) == \A l \in (k + 1)..Len(sites) : ~Overlaps(k, l)

\* C1: every valid PatchSite gets a source-cave slot of exactly
\* align16(cavesize + CALL_LEN) bytes; the first slot starts at the start of
\* the region and each slot begins where the previous one ends; the slots
\* are those of the valid PatchSites of the input, in order.
C1_SlotsContiguous ==
    /\ \A k \in 1..Len(sites) :
         /\ sites[k].cavesize = breakpoints0[sites[k].bp].cavesize
         /\ sites[k].src_end - sites[k].src = Align16(sites[k].cavesize + CALL_LEN)
         /\ sites[k].src = IF k = 1 THEN 0 ELSE sites[k - 1].src_end
    /\ IsPrefix(SiteKeys, ExpectedSites)
    /\ (pc = "done" => SiteKeys = ExpectedSites)

\* C1 witness: setup is done with two PatchSites of one description and
\* slots of different sizes.
C1_Witness ==
    /\ pc = "done"
    /\ \E a, b, c \in 1..Len(sites) :
         /\ a < b /\ sites[a].bp = sites[b].bp
         /\ sites[c].src_end - sites[c].src # sites[a].src_end - sites[a].src

\* C2: the totals of the sizing pass are the sum of align16(cavesize +
\* CALL_LEN) over the valid PatchSites and their number times the stub
\* size; the regions have these sizes; the generation pass fills one slot of
\* each region per valid PatchSite, in input order; no write falls outside
\* a region; when generation ends both cursors are at the end of their
\* region.
C2_TotalsMatch ==
    /\ fault # "cave_overrun"
    /\ (protect # "none" =>
          /\ sourcecaves_total_size = SumSlots(ExpectedSites, 1)
          /\ callcaves_total_size = Len(ExpectedSites) * MemSize(bp_entry)
          /\ MemSize(cave_source) = sourcecaves_total_size
          /\ MemSize(cave_call) = callcaves_total_size
          /\ callcave_p = Len(sites) * MemSize(bp_entry)
          /\ sourcecave_p = SumSlots(SiteKeys, 1)
          /\ IsPrefix(SiteKeys, ExpectedSites)
          /\ \A k \in 1..Len(sites) :
                /\ sites[k].call = (k - 1) * MemSize(bp_entry)
                /\ sites[k].call_end <= callcaves_total_size
                /\ sites[k].src + sites[k].cavesize + CALL_LEN <= sites[k].src_end
                /\ sites[k].src_end <= sourcecaves_total_size)
    /\ (protect = "PAGE_EXECUTE" =>
          /\ SiteKeys = ExpectedSites
          /\ sourcecave_p = sourcecaves_total_size
          /\ callcave_p = callcaves_total_size)

\* C2 witness: generation has ended after three or more PatchSites.
C2_Witness ==
    /\ protect = "PAGE_EXECUTE" /\ Len(sites) >= 3
    /\ sourcecave_p = sourcecaves_total_size
    /\ \E a, b \in 1..Len(sites) : a < b /\ sites[a].bp = sites[b].bp

\* C3: when the first byte copied into a slot is 0xE8 or 0xE9, the rewritten
\* displacement d' satisfies slot + 5 + d' = addr + 5 + d (mod 2^32), d being
\* the displacement copied, and the other bytes are as copied; when the
\* first byte is anything else the slot holds the bytes as copied.
C3_Relocation ==
    \A k \in 1..Len(sites) :
        LET st == sites[k]
            slot == ReadBytes(cave_source, st.src, st.cavesize)
            d_old == SubSeq(st.copied, 2, CALL_LEN)
            d_new == SubSeq(slot, 2, CALL_LEN)
        IN  IF st.copied[1] \in {x86_CALL_NEAR_REL32, x86_JMP_NEAR_REL32}
            THEN /\ slot[1] = st.copied[1]
                 /\ Add32(Add32(SrcAddr(st.src), W32(CALL_LEN)), d_new)
                        = Add32(Add32(st.addr, W32(CALL_LEN)), d_old)
                 /\ \A b \in (CALL_LEN + 1)..st.cavesize : slot[b] = st.copied[b]
            ELSE slot = st.copied

\* C3 witness: a slot starts with a relocated CALL, another with a
\* relocated JMP, and a third with another opcode.
C3_Witness ==
    \E a, b, c \in 1..Len(sites) :
        /\ sites[a].copied[1] = x86_CALL_NEAR_REL32
        /\ Load32(cave_source, sites[a].src + 1) # SubSeq(sites[a].copied, 2, CALL_LEN)
        /\ sites[b].copied[1] = x86_JMP_NEAR_REL32
        /\ sites[c].copied[1] \notin {x86_CALL_NEAR_REL32, x86_JMP_NEAR_REL32}

\* The first CALL_LEN bytes at the address of PatchSite k are a near call
\* into the call-cave slot of PatchSite k.
CallInstalled(k) ==
    LET o == OffIn(sites[k].addr, HostBase)
    IN  /\ host[o] = x86_CALL_NEAR_REL32
        /\ Add32(Add32(sites[k].addr, W32(CALL_LEN)), Load32(host, o + 1))
               = CallAddr(sites[k].call)

\* C5 as claimed: after setup the first CALL_LEN bytes at every valid
\* PatchSite address are a near relative call into that PatchSite's own
\* call-cave slot.
C5_Original == pc = "done" => \A k \in 1..Len(sites) : CallInstalled(k)

\* C5 as amended: from its install step on, and as long as no PatchSite
\* with an intersecting window has been installed after it, the first
\* CALL_LEN bytes at a PatchSite's address are a near relative call whose
\* target is that PatchSite's own call-cave slot.
C5_CallTarget ==
    \A k \in 1..Len(sites) : NotOverwritten(k) => CallInstalled(k)

\* C5 witness: setup is done with two or more PatchSites whose windows do
\* not intersect.
C5_Witness ==
    /\ pc = "done" /\ Len(sites) >= 2
    /\ \A k \in 1..Len(sites) : NotOverwritten(k)

\* C6 as claimed: the patch buffer is grown without writing outside it, and
\* after the install of a PatchSite every byte in [addr + CALL_LEN,
\* addr + cavesize) is 0x90.
C6_Padding ==
    /\ fault # "asm_buf_overrun"
    /\ (Len(sites) > 0 =>
          LET st == sites[Len(sites)]
              o == OffIn(st.addr, HostBase)
          IN  \A b \in (o + CALL_LEN)..(o + st.cavesize - 1) : host[b] = x86_NOP)

\* C7: in every source-cave slot the byte at offset cavesize is 0xE9 and
\* slot + cavesize + CALL_LEN + disp = addr + cavesize (mod 2^32).
C7_JumpBack ==
    \A k \in 1..Len(sites) :
        LET st == sites[k]
            jmp == st.src + st.cavesize
        IN  /\ cave_source[jmp] = x86_JMP_NEAR_REL32
            /\ Add32(Add32(SrcAddr(jmp), W32(CALL_LEN)), Load32(cave_source, jmp + 1))
                   = Add32(st.addr, W32(st.cavesize))

\* C7 witness: setup is done with slots of different cavesize, one above
\* and one below the host code.
C7_Witness ==
    /\ pc = "done" /\ cave_bases[1] = <<0, 0, 32, 0>>
    /\ \E a, b \in 1..Len(sites) : sites[a].cavesize # sites[b].cavesize

\* C8: the call-cave slot of the k-th PatchSite is slot k of the region and
\* is a copy of the template in which the cave field holds the address of
\* the k-th source-cave slot, the description field the address of the
\* PatchSite's description, and the dispatch field a displacement d with
\* field + sizeof(pointer) + d = breakpoint_process; no other byte differs
\* from the template.
C8_TrampolineFields ==
    \A k \in 1..Len(sites) :
        LET st == sites[k]
            in(b, f) == b >= f /\ b < f + SizeofPtr
        IN  /\ st.call = (k - 1) * MemSize(bp_entry)
            /\ Load32(cave_call, st.call + bp_entry_cave) = SrcAddr(st.src)
            /\ Load32(cave_call, st.call + bp_entry_local) = DescAddr(st.bp)
            /\ Add32(Add32(CallAddr(st.call + bp_entry_call), W32(SizeofPtr)),
                     Load32(cave_call, st.call + bp_entry_call))
                   = BreakpointProcessAddr
            /\ \A b \in 0..(MemSize(bp_entry) - 1) :
                  (in(b, bp_entry_cave) \/ in(b, bp_entry_local) \/ in(b, bp_entry_call))
                  \/ cave_call[st.call + b] = bp_entry[b]

\* C8 witness: setup is done with PatchSites of two different descriptions.
C8_Witness ==
    /\ pc = "done"
    /\ \E a, b \in 1..Len(sites) : sites[a].bp # sites[b].bp

(***************************************************************************)
(* Properties of one dispatch, checked under SpecDispatch                  *)
(***************************************************************************)
\* Offset in the stack window of the snapshot after breakpoint_process: the
\* place it had, moved by the change the handler made to regs->esp.
MovedRegs == regs + handler.delta

C9_Diversion ==
    dpc \in {"processed", "resumed"} =>
        LET ra == Load32(stack, MovedRegs + RegOff("retaddr"))
        IN  /\ (ra = cave_addr) <=> (handler.flag # 0)
            /\ (handler.flag = 0 => ra = handler.retaddr)
            /\ (dpc = "resumed" => cpu.eip = ra)

\* C9 witness: the handler wrote a resume address of its own, moved the
\* stack pointer and returned a flag other than 0 and 1.
C9_Witness ==
    /\ dpc = "processed" /\ handler.flag = 2 /\ handler.ret = "write"
    /\ handler.delta # 0
    /\ handler.retaddr = HandlerTarget

\* C10: breakpoint_process returns 0 and leaves the whole stack as the
\* handler and the resume-address step left it when the stack pointer of the
\* snapshot is unchanged; otherwise it returns delta = new - old (mod 2^32)
\* and the sizeof(x86_reg_t) bytes at snapshot + delta are the snapshot as it
\* stood after the handler ran and the resume address was set.
C10_DeltaAndRelocation ==
    dpc = "processed" =>
        /\ esp_diff = DeltaWord(handler.delta)
        /\ ReadBytes(stack, MovedRegs, SizeofRegs) = handler.snapshot
        /\ (handler.delta = 0 =>
              \A k \in DOMAIN stack :
                  (k >= regs /\ k < regs + SizeofRegs) \/ stack[k] = handler.others[k])

\* C10 witness: the snapshot was moved up by fewer bytes than its size, so
\* the old and the new range overlap.
C10_Witness ==
    /\ dpc = "processed" /\ handler.delta > 0 /\ handler.delta < SizeofRegs
    /\ handler.flag # 0
    /\ esp_diff # Zero32

\* The snapshot as bp_entry built it from the registers of the program.
StubSnapshot ==
    LET pushed == [k \in 1..Len(RegNames) |->
                     IF RegNames[k] = "retaddr" THEN Add32(HostAddr(0), W32(CALL_LEN))
                     ELSE IF RegNames[k] = "esp" THEN Sub32(esp0, W32(SizeofPtr))
                     ELSE CpuInit(esp0)[RegNames[k]]]
    IN  [k \in 1..SizeofRegs |->
            pushed[((k - 1) \div SizeofPtr) + 1][((k - 1) % SizeofPtr) + 1]]

InWindow(b, st) ==
    LET o == OffIn(st.addr, HostBase)
    IN  b >= o /\ b < o + st.cavesize

\* The number of valid PatchSites of description n of the input.
ValidCount(n) ==
    Cardinality({k \in 1..Len(breakpoints0[n].addr) :
                    IsValidEntry(breakpoints0[n], k)})

\* Three descriptions: #1 and #3 with one valid address each, #2 with none.
ThreeScenario ==
    /\ Len(breakpoints0) = 3
    /\ ValidCount(1) = 1 /\ ValidCount(2) = 0 /\ ValidCount(3) = 1

\* C11: a host byte differs from what it was before setup only inside the
\* window [addr, addr + cavesize) of a generated PatchSite, and every
\* generated PatchSite is a valid entry of the input (registered handler,
\* address not null, region check passed); in the three-description
\* scenario exactly 2 source-cave slots and 2 call-cave slots are generated.
C11_Frame ==
    /\ \A b \in DOMAIN host :
          host[b] # HostCode[b] =>
              \E k \in 1..Len(sites) :
                  /\ InWindow(b, sites[k])
                  /\ IsValidEntry(breakpoints0[sites[k].bp], sites[k].entry)
    /\ \A k \in 1..Len(sites) :
          IsValidEntry(breakpoints0[sites[k].bp], sites[k].entry)
    /\ (pc = "done" /\ ThreeScenario =>
          /\ Len(sites) = 2
          /\ sites[1].bp = 1 /\ sites[2].bp = 3
          /\ sourcecaves_total_size = sites[2].src_end
          /\ sourcecave_p = sourcecaves_total_size
          /\ callcaves_total_size = 2 * MemSize(bp_entry)
          /\ callcave_p = callcaves_total_size)

\* C11 witness: the three-description scenario is done, description #2 has
\* a registered handler and an address that fails the region check,
\* description #3 has a null address besides its valid one, and host bytes
\* were changed.
C11_Witness ==
    /\ pc = "done" /\ ThreeScenario
    /\ breakpoints0[2].registered
    /\ \E k \in 1..Len(breakpoints0[2].addr) :
          breakpoints0[2].addr[k].type = "RAW_ADDR"
    /\ \E k \in 1..Len(breakpoints0[3].addr) :
          breakpoints0[3].addr[k].type = "NULL_ADDR"
    /\ \E b \in DOMAIN host : host[b] # HostCode[b]

\* The descriptions of the input that become active: handler registered and
\* at least one valid address.
ActiveCount ==
    Cardinality({n \in 1..Len(breakpoints0) : ValidCount(n) > 0})

\* C12 as claimed: for every input, the value breakpoints_apply returns is
\* the number of descriptions minus the number of descriptions that became
\* active, also when no description has a valid address.
C12_ReturnValue ==
    pc = "done" => retval = Len(breakpoints0) - ActiveCount

\* Entry k of description d is a non-null address at which fewer than
\* cavesize bytes are mapped.
EntryFails(d, k) ==
    /\ d.addr[k].type = "RAW_ADDR"
    /\ d.addr[k].raw # Zero32
    /\ ~IsValidEntry([d EXCEPT !.registered = TRUE], k)

\* The sizing pass has gone through description n.
Sized(n) == pc \in {"gen", "done", "crashed"} \/ (pc = "size" /\ i > n)

\* The generation pass has gone through entry k of description n.
Generated(n, k) ==
    pc = "done" \/ (pc = "gen" /\ (i > n \/ (i = n /\ cur_addr > k)))

\* The PatchSites generated for entry k of description n.
SitesOf(n, k) == {s \in 1..Len(sites) : sites[s].bp = n /\ sites[s].entry = k}

\* C14: the address sequence of a description keeps its length and its
\* addresses; once the sizing pass has gone through a description with a
\* registered handler, exactly its non-null entries that fail the region
\* check for cavesize bytes are tagged invalid; a null or failing entry
\* never gets a slot, and no host byte at a failing address is changed
\* unless it lies in the window of a generated PatchSite; every entry of the
\* same description that passes the check has, once the generation pass
\* has gone through it, exactly one slot of its own, and its call as long
\* as no later PatchSite overlaps it.
C14_PerAddress ==
    \A n \in 1..Len(breakpoints0) :
        LET d0 == breakpoints0[n]
            d == breakpoints[n]
        IN  /\ Len(d.addr) = Len(d0.addr)
            /\ \A k \in 1..Len(d0.addr) :
                  /\ d.addr[k].raw = d0.addr[k].raw
                  /\ d.addr[k].type =
                         IF Sized(n) /\ d0.registered /\ EntryFails(d0, k)
                         THEN "INVALID_ADDR" ELSE d0.addr[k].type
                  /\ (~IsValidEntry(d0, k) => SitesOf(n, k) = {})
                  /\ (EntryFails(d0, k) =>
                         \A b \in DOMAIN host :
                             InWindow(b, [addr |-> d0.addr[k].raw,
                                          cavesize |-> d0.cavesize]) =>
                                 \/ host[b] = HostCode[b]
                                 \/ \E s \in 1..Len(sites) : InWindow(b, sites[s]))
                  /\ (IsValidEntry(d0, k) /\ Generated(n, k) =>
                         /\ Cardinality(SitesOf(n, k)) = 1
                         /\ \A s \in SitesOf(n, k) :
                               /\ sites[s].addr = d0.addr[k].raw
                               /\ (NotOverwritten(s) => CallInstalled(s)))

\* C14 witness: setup is done; one description has an entry tagged invalid
\* and a sibling entry with a slot and its call, another has a null entry
\* and a sibling entry with a slot.
C14_Witness ==
    /\ pc = "done"
    /\ \E n, m \in 1..Len(breakpoints0) :
          /\ \E k, l \in 1..Len(breakpoints0[n].addr) :
                /\ breakpoints[n].addr[k].type = "INVALID_ADDR"
                /\ SitesOf(n, k) = {}
                /\ \E s \in SitesOf(n, l) : CallInstalled(s)
          /\ \E k, l \in 1..Len(breakpoints0[m].addr) :
                /\ breakpoints0[m].addr[k].type = "NULL_ADDR"
                /\ SitesOf(m, l) # {}

\* C15: two PatchSites of one description have source-cave slots that do
\* not intersect and call-cave slots that do not intersect, and the
\* description field of both call-cave slots holds the address of that one
\* description; after setup a description with two valid addresses has a
\* PatchSite for each.
C15_MultiAddress ==
    /\ \A a, b \in 1..Len(sites) :
          (a < b /\ sites[a].bp = sites[b].bp) =>
              /\ sites[a].entry # sites[b].entry
              /\ sites[a].src_end <= sites[b].src
              /\ sites[a].src + sites[a].cavesize + CALL_LEN <= sites[b].src
              /\ sites[a].call_end <= sites[b].call
              /\ sites[a].call + MemSize(bp_entry) <= sites[b].call
              /\ Load32(cave_call, sites[a].call + bp_entry_local)
                     = DescAddr(sites[a].bp)
              /\ Load32(cave_call, sites[b].call + bp_entry_local)
                     = Load32(cave_call, sites[a].call + bp_entry_local)
    /\ (pc = "done" =>
          \A n \in 1..Len(breakpoints0) :
              Cardinality({s \in 1..Len(sites) : sites[s].bp = n}) = ValidCount(n))

\* C15 witness: setup is done and a description with two valid addresses
\* has two PatchSites, whose source-cave slots hold different code.
C15_Witness ==
    /\ pc = "done"
    /\ \E a, b \in 1..Len(sites) :
          /\ a < b /\ sites[a].bp = sites[b].bp
          /\ ValidCount(sites[a].bp) = 2
          /\ sites[a].addr # sites[b].addr
          /\ sites[a].copied # sites[b].copied

\* VirtualAlloc returned NULL for one of the two regions.
AllocationFailed ==
    /\ pc \in {"gen", "done", "crashed"} /\ total_valid_addrs > 0
    /\ (cave_bases[1] = Zero32 \/ cave_bases[2] = Zero32)

\* C17 as claimed: when the allocation of the source-cave region or of the
\* call-cave region fails, breakpoints_apply writes nothing through the
\* failed allocation, leaves the host code as it was, and returns to its
\* caller.
C17_AllocationFailure ==
    /\ fault # "null_write"
    /\ (AllocationFailed => host = HostCode /\ pc = "done")

\* Bytes [0, cavesize) of the source-cave slot of PatchSite k replay the
\* code the host had at its address before setup began: the bytes are
\* equal, except that after a leading 0xE8 / 0xE9 the displacement is the
\* one that reaches the same target from the slot.
ReplaysOriginal(k) ==
    LET st == sites[k]
        slot == ReadBytes(cave_source, st.src, st.cavesize)
        orig == ReadBytes(HostCode, OffIn(st.addr, HostBase), st.cavesize)
    IN  /\ slot[1] = orig[1]
        /\ IF orig[1] \in {x86_CALL_NEAR_REL32, x86_JMP_NEAR_REL32}
           THEN /\ Add32(Add32(SrcAddr(st.src), W32(CALL_LEN)),
                         SubSeq(slot, 2, CALL_LEN))
                       = Add32(Add32(st.addr, W32(CALL_LEN)),
                               SubSeq(orig, 2, CALL_LEN))
                /\ \A b \in (CALL_LEN + 1)..st.cavesize : slot[b] = orig[b]
           ELSE slot = orig

\* No PatchSite generated before k has a window that intersects that of k.
NoEarlierOverlap(k) == \A l \in 1..(k - 1) : ~Overlaps(l, k)

\* C18 as claimed: for every list of PatchSites, also with equal addresses
\* or overlapping windows, the source-cave slot of every PatchSite replays
\* the code the host had at its address before setup began.
C18_Original == \A k \in 1..Len(sites) : ReplaysOriginal(k)

\* C18 as amended: the source-cave slot of a PatchSite replays the code the
\* host had at its address before setup began, provided no PatchSite
\* generated before it has a window that intersects its own.
C18_RoundTrip ==
    \A k \in 1..Len(sites) : NoEarlierOverlap(k) => ReplaysOriginal(k)

\* C18 witness: setup is done with two or more PatchSites, none of which
\* intersects an earlier one; one begins with a relocated JMP and one is
\* longer than a call.
C18_Witness ==
    /\ pc = "done" /\ Len(sites) >= 2
    /\ \A k \in 1..Len(sites) : NoEarlierOverlap(k)
    /\ \E a, b \in 1..Len(sites) :
          /\ sites[a].copied[1] = x86_JMP_NEAR_REL32
          /\ sites[b].cavesize > CALL_LEN

\* C19 as claimed: no field of a constructed description is modified by a
\* later operation, in particular not by breakpoints_apply.
C19_Original == breakpoints = breakpoints0

\* What one step may do to description n: nothing, or, while the sizing
\* pass is at n, store the handler found for it and tag entries that fail
\* the region check.
C19_Step(n) ==
    LET d == breakpoints[n]
        e == breakpoints'[n]
        sizing == pc = "size" /\ i = n
    IN  /\ e.cavesize = d.cavesize
        /\ e.registered = d.registered
        /\ (e.func = d.func \/ (sizing /\ ~d.func /\ e.func = d.registered))
        /\ Len(e.addr) = Len(d.addr)
        /\ \A k \in 1..Len(d.addr) :
              /\ e.addr[k].raw = d.addr[k].raw
              /\ \/ e.addr[k].type = d.addr[k].type
                 \/ /\ sizing /\ d.func # e.func
                    /\ e.addr[k].type = "INVALID_ADDR"
                    /\ EntryFails(d, k)

\* C19 as amended: breakpoints_apply never changes the cavesize, the number
\* of address entries or an address of a description; its sizing pass
\* stores the handler it found in the handler reference, which
\* breakpoint_from_json left null, and tags in place the entries of
\* descriptions with a handler that fail the region check; no other step,
\* in particular none of the generation pass, modifies a description.
C19_Immutability ==
    [][/\ Len(breakpoints') = Len(breakpoints)
       /\ \A n \in 1..Len(breakpoints) : C19_Step(n)
       /\ (pc # "size" => breakpoints' = breakpoints)]_vars

\* C19 witness: setup is done; a description has its handler stored and an
\* entry tagged, and another description is as it was constructed.
C19_Witness ==
    /\ pc = "done"
    /\ \E n, m \in 1..Len(breakpoints) :
          /\ breakpoints[n].func /\ ~breakpoints0[n].func
          /\ \E k \in 1..Len(breakpoints[n].addr) :
                /\ breakpoints[n].addr[k].type = "INVALID_ADDR"
                /\ breakpoints0[n].addr[k].type = "RAW_ADDR"
          /\ breakpoints[m] = breakpoints0[m]

\* C21: from their allocation to the end of the generation pass both cave
\* regions are PAGE_READWRITE; every write to a region and every new
\* PatchSite happens under that protection; once the regions are
\* PAGE_EXECUTE neither their bytes nor their protection change again; and
\* when breakpoints_apply returns after installing a PatchSite, all valid
\* PatchSites have been written and the regions are PAGE_EXECUTE.
C21_ProtectionOrdering ==
    /\ [](/\ (pc = "gen" => protect = "PAGE_READWRITE")
          /\ (protect = "PAGE_EXECUTE" => pc = "done" /\ SiteKeys = ExpectedSites)
          /\ (pc = "done" /\ Len(sites) > 0 => protect = "PAGE_EXECUTE"))
    /\ [][/\ (cave_source' # cave_source \/ cave_call' # cave_call
              \/ sites' # sites) =>
                 /\ protect' \in {"none", "PAGE_READWRITE"}
                 /\ protect \in {"none", "PAGE_READWRITE"}
           /\ (protect = "PAGE_EXECUTE" =>
                 /\ protect' = "PAGE_EXECUTE"
                 /\ cave_source' = cave_source /\ cave_call' = cave_call)]_vars

\* C21 witness: breakpoints_apply has returned with three or more
\* PatchSites and both regions are PAGE_EXECUTE.
C21_Witness ==
    pc = "done" /\ Len(sites) >= 3 /\ protect = "PAGE_EXECUTE"

\* C22 as claimed: at every point of breakpoints_apply, a target address
\* that holds the call into its call-cave slot does so only when the cave
\* regions are already PAGE_EXECUTE.
C22_SetupUnobservable ==
    \A k \in 1..Len(sites) : CallInstalled(k) => protect = "PAGE_EXECUTE"

\* The bytes of the source-cave slot of PatchSite k after its copied bytes
\* and its jump back.
SlotTail(k) ==
    (sites[k].src + sites[k].cavesize + CALL_LEN) .. (sites[k].src_end - 1)

\* C23: once the source-cave region exists, every byte from the write
\* cursor on holds 0xCC (so the whole region does before the first
\* PatchSite is generated), and every byte of the alignment tail of a
\* generated slot holds 0xCC, during generation and after it.
C23_TrapFill ==
    protect # "none" =>
        /\ \A o \in sourcecave_p .. (MemSize(cave_source) - 1) :
               cave_source[o] = x86_INT3
        /\ \A k \in 1..Len(sites) : \A o \in SlotTail(k) :
               cave_source[o] = x86_INT3

\* C23 witness: generation has ended with two or more slots, one of them
\* with a tail and with copied bytes that are not 0xCC.
C23_Witness ==
    /\ pc = "done" /\ Len(sites) >= 2
    /\ \E k \in 1..Len(sites) :
          /\ SlotTail(k) # {}
          /\ \E o \in sites[k].src .. (sites[k].src + sites[k].cavesize - 1) :
                cave_source[o] # x86_INT3

(***************************************************************************)
(* Two calls of breakpoints_apply on a fresh host: the first on a list     *)
(* with a description that has no valid PatchSite, the second on the same  *)
(* list without that description                                           *)
(***************************************************************************)
\* The descriptions the compared lists are drawn from: two with one valid
\* address, one with a valid and an invalid address, and three without a
\* valid PatchSite (region check fails, handler not registered, all null).
SkipChoices ==
    { Desc(5, TRUE, <<RawEntry(HostAddr(0))>>),
      Desc(7, TRUE, <<NullEntry, RawEntry(HostAddr(16))>>),
      Desc(5, TRUE, <<RawEntry(HostAddr(HostLen - 4)), RawEntry(HostAddr(3))>>),
      Desc(7, TRUE, <<RawEntry(HostAddr(HostLen - 4))>>),
      Desc(5, FALSE, <<RawEntry(HostAddr(16))>>),
      Desc(6, TRUE, <<NullEntry, NullEntry>>) }

\* Description d has no valid PatchSite.
IsSkipped(d) == \A k \in 1..Len(d.addr) : ~IsValidEntry(d, k)

\* The list without its n-th description.
Remove(list, n) ==
    [k \in 1..(Len(list) - 1) |-> IF k < n THEN list[k] ELSE list[k + 1]]

\* What a call of breakpoints_apply left behind.
Outcome ==
    [host |-> host, cave_bases |-> cave_bases, cave_source |-> cave_source,
     cave_call |-> cave_call, sites |-> sites, retval |-> retval,
     input |-> breakpoints0]

\* The first call has returned; breakpoints_apply is called again, on a
\* fresh host, with the list that lacks description cmp.skip.
SecondCall ==
    /\ pc = "done" /\ cmp.skip > 0 /\ cmp.run = 1
    /\ cmp' = [cmp EXCEPT !.run = 2, !.first = Outcome]
    /\ pc' = "start"
    /\ breakpoints0' = Remove(breakpoints0, cmp.skip)
    /\ breakpoints' = breakpoints0'
    /\ host' = HostCode
    /\ i' = 0 /\ cur_addr' = 0
    /\ sourcecaves_total_size' = 0
    /\ valid_breakpoint_count' = 0
    /\ total_valid_addrs' = 0
    /\ breakpoint_total_size' = <<>>
    /\ callcaves_total_size' = 0
    /\ cave_bases' = <<Zero32, Zero32>>
    /\ cave_source' = Fill(0, 0)
    /\ cave_call' = Fill(0, 0)
    /\ sourcecave_p' = 0 /\ callcave_p' = 0
    /\ asm_buf' = Fill(0, 0)
    /\ current_asm_buf_size' = 0
    /\ protect' = "none"
    /\ retval' = -1
    /\ fault' = "none"
    /\ sites' = <<>>
    /\ UNCHANGED <<dispVars, consVars, restVars>>

InitSkip ==
    /\ breakpoints0 \in UNION {[1..n -> SkipChoices] : n \in 1..MaxBp}
    /\ ApplyEntry /\ DispIdle /\ ConsIdle /\ RestIdle
    /\ \E n \in 1..Len(breakpoints0) :
          /\ IsSkipped(breakpoints0[n])
          /\ cmp = [skip |-> n, run |-> 1, first |-> <<>>]

NextSkip == ApplyNext \/ SecondCall

SpecSkip == InitSkip /\ [][NextSkip]_vars

(***************************************************************************)
(* Properties of two compared calls, checked under SpecSkip                *)
(***************************************************************************)
\* The index, in the list of the first call, of description j of the list
\* of the second call.
FirstIndex(j) == IF j < cmp.skip THEN j ELSE j + 1

\* Byte b of the call-cave region lies in the description field of a slot.
InLocalField(b) ==
    LET o == b % MemSize(bp_entry)
    IN  o >= bp_entry_local /\ o < bp_entry_local + SizeofPtr

\* C13: a description without a valid PatchSite (handler not registered,
\* or all addresses null or invalid) gets no slot and no patch and setup
\* goes on to the end for the others; a call on the list without that
\* description gives the same PatchSites in the same order with the same
\* slot offsets and sizes, the same source-cave bytes, the same call-cave
\* bytes (the description field pointing at the same description) and the
\* same host bytes, the regions being at the same bases.
C13_SkipAndContinue ==
    /\ (cmp.skip > 0 /\ cmp.run = 1 =>
          /\ \A k \in 1..Len(sites) : sites[k].bp # cmp.skip
          /\ (pc = "done" => SiteKeys = ExpectedSites))
    /\ (cmp.run = 2 /\ pc = "done" /\ cave_bases = cmp.first.cave_bases =>
          LET f == cmp.first
          IN  /\ Len(sites) = Len(f.sites)
              /\ \A k \in 1..Len(sites) :
                    /\ f.sites[k] = [sites[k] EXCEPT !.bp = FirstIndex(sites[k].bp)]
                    /\ Load32(f.cave_call, sites[k].call + bp_entry_local)
                           = DescAddr(FirstIndex(sites[k].bp))
                    /\ f.input[FirstIndex(sites[k].bp)] = breakpoints0[sites[k].bp]
              /\ cave_source = f.cave_source
              /\ DOMAIN cave_call = DOMAIN f.cave_call
              /\ \A b \in DOMAIN cave_call :
                    InLocalField(b) \/ cave_call[b] = f.cave_call[b]
              /\ host = f.host)

\* C13 witness: the second call is done; the description left out stood
\* between two descriptions that both have PatchSites.
C13_Witness ==
    /\ cmp.run = 2 /\ pc = "done" /\ cave_bases = cmp.first.cave_bases
    /\ Len(sites) >= 2
    /\ \E a, b \in 1..Len(sites) :
          sites[a].bp < cmp.skip /\ FirstIndex(sites[b].bp) > cmp.skip

(***************************************************************************)
(* Properties of the construction, checked under SpecConstruct             *)
(***************************************************************************)
\* The elements of the "addr" array that name an address.
Resolvable(json) ==
    SelectSeq(json.addr.elems, LAMBDA e : e.type \in {"integer", "string"})

\* C16: breakpoint_from_json returns false when the input is not a JSON
\* object, when it has no cavesize, when the cavesize is neither an integer
\* nor a string, when the cavesize is below CALL_LEN, or when no candidate
\* address resolves; whenever it returns false *out is as it was before the
\* call and no reference to the input was taken; when it returns true *out
\* holds the name, the cavesize (at least CALL_LEN), the input as its
\* configuration, and one address entry per resolvable element, in order.
C16_Construction ==
    cpc \in {"failed", "constructed"} =>
        LET cs == json_in.cavesize
        IN  /\ (json_in.kind # "object" => ~result)
            /\ (cs.type = "absent" => ~result)
            /\ (cs.type \notin {"integer", "string"} => ~result)
            /\ (cs.val < CALL_LEN => ~result)
            /\ (Resolvable(json_in) = <<>> => ~result)
            /\ (~result => cpc = "failed" /\ out = out0 /\ json_refs = 1)
            /\ (result =>
                  /\ cpc = "constructed"
                  /\ out.name = bp_name
                  /\ out.cavesize = cs.val /\ out.cavesize >= CALL_LEN
                  /\ out.json_obj = json_in /\ json_refs = 2
                  /\ Len(out.addr) = Len(Resolvable(json_in))
                  /\ Len(out.addr) >= 1
                  /\ \A k \in 1..Len(out.addr) :
                        IF Resolvable(json_in)[k].type = "integer"
                        THEN out.addr[k] = RawEntry(Resolvable(json_in)[k].val)
                        ELSE out.addr[k].type = "STR_ADDR")

\* C16 witness: the construction failed only because the cavesize is one
\* below CALL_LEN, and *out, which held an earlier description, is as it
\* was.
C16_Witness ==
    /\ cpc = "failed" /\ ~result
    /\ json_in.kind = "object" /\ json_in.ignore # "true"
    /\ json_in.cavesize = [type |-> "integer", val |-> CALL_LEN - 1]
    /\ Resolvable(json_in) # <<>>
    /\ out0.cavesize = CALL_LEN /\ out = out0

\* The part of a name before its first '#'.
BaseName(str) ==
    IF \E k \in 1..Len(str) : str[k] = "#"
    THEN SubSeq(str, 1, (CHOOSE k \in 1..Len(str) :
                            str[k] = "#" /\ \A j \in 1..(k - 1) : str[j] # "#") - 1)
    ELSE str

\* The key of a name that carries no '#' suffix: the name itself when it
\* begins with "codecave:", else "BP_" and the name.
KeyOfBase(base) == IF StartsWith(base, Codecave) THEN base ELSE BP_ \o base

\* C20 as claimed: under both prefix conventions the key the handler is
\* looked up under is the key of the name without the part from its first
\* '#' on, so that names that differ only in that part get the same key
\* and the same handler.
C20_KeyDerivation ==
    cpc = "inited" =>
        /\ bp_key = KeyOfBase(BaseName(bp_name))
        /\ out.func = func_get(KeyOfBase(BaseName(bp_name)))


\* C26 as claimed: for every description name, breakpoint_local_init
\* writes no more bytes into the key buffer than the strlen("BP_") + key_len
\* + 1 it allocated.
C26_KeyBufferBound ==
    cpc \in {"inited", "crashed"} => bp_key_written <= bp_key_size

(***************************************************************************)
(* The generation of one PatchSite, statement by statement                 *)
(***************************************************************************)
\* Mutant of StepOrder: the call is installed before the old code is
\* copied.
StepOrder_InstallEarly ==
    <<"patch_entry", "bp_dist", "patch_region", "copy", "cave_fix", "jmp">>

\* The statements of one iteration of the address loop, in program order.
StepOrder ==
    <<"patch_entry", "bp_dist", "copy", "cave_fix", "jmp", "patch_region">>

\* The statement after statement step; after the last one the cursor of the
\* source-cave region advances and the loop goes on.
NextStep(step) ==
    LET k == CHOOSE n \in 1..Len(StepOrder) : StepOrder[n] = step
    IN  IF k = Len(StepOrder) THEN "advance" ELSE StepOrder[k + 1]

\* The address and cavesize of the PatchSite being generated.
CurAddr == eval_hackpoint_addr(breakpoints[i].addr, cur_addr).addr

CurCavesize == breakpoints[i].cavesize

\* The head of one iteration of the address loop: the end of the list, a
\* skipped entry, or the first statement of a PatchSite.
GenAddrEnter ==
    /\ UNCHANGED notApply
    /\ pc = "gen" /\ i <= bp_count /\ cur_addr >= 1
    /\ LET e == eval_hackpoint_addr(breakpoints[i].addr, cur_addr)
       IN  IF ~e.ok
           THEN /\ i' = i + 1 /\ cur_addr' = 0
                /\ UNCHANGED <<pc, fault>>
           ELSE IF e.addr = Zero32
           THEN /\ cur_addr' = cur_addr + 1
                /\ UNCHANGED <<pc, i, fault>>
           ELSE IF ~InBounds(cave_call, callcave_p, bp_entry_size)
                   \/ ~InBounds(cave_source, sourcecave_p, CurCavesize + CALL_LEN)
           THEN /\ fault' = "cave_overrun" /\ pc' = "crashed"
                /\ UNCHANGED <<i, cur_addr>>
           ELSE /\ pc' = StepOrder[1]
                /\ UNCHANGED <<i, cur_addr, fault>>
    /\ UNCHANGED <<breakpoints0, breakpoints, host, sourcecaves_total_size,
                   valid_breakpoint_count, total_valid_addrs,
                   breakpoint_total_size, callcaves_total_size, cave_bases,
                   cave_source, cave_call, sourcecave_p, callcave_p, asm_buf,
                   current_asm_buf_size, protect, retval, sites>>

\* The three PatchBPEntryInst.
GenPatchEntry ==
    /\ UNCHANGED notApply
    /\ pc = "patch_entry"
    /\ cave_call' = PatchBPEntry(cave_call, callcave_p, SrcAddr(sourcecave_p),
                                 DescAddr(i))
    /\ pc' = NextStep("patch_entry")
    /\ UNCHANGED <<breakpoints0, breakpoints, host, i, cur_addr,
                   sourcecaves_total_size, valid_breakpoint_count,
                   total_valid_addrs, breakpoint_total_size,
                   callcaves_total_size, cave_bases, cave_source,
                   sourcecave_p, callcave_p, asm_buf, current_asm_buf_size,
                   protect, retval, fault, sites>>

\* CALL bp_entry: the distance goes into asm_buf and the call-cave cursor
\* advances.
GenBpDist ==
    /\ UNCHANGED notApply
    /\ pc = "bp_dist"
    /\ asm_buf' = Store32(asm_buf, 1, BpDist(CallAddr(callcave_p), CurAddr))
    /\ callcave_p' = callcave_p + CallStep
    /\ pc' = NextStep("bp_dist")
    /\ UNCHANGED <<breakpoints0, breakpoints, host, i, cur_addr,
                   sourcecaves_total_size, valid_breakpoint_count,
                   total_valid_addrs, breakpoint_total_size,
                   callcaves_total_size, cave_bases, cave_source, cave_call,
                   sourcecave_p, current_asm_buf_size, protect, retval,
                   fault, sites>>

\* Copy old code to cave.
GenCopyOldCode ==
    /\ UNCHANGED notApply
    /\ pc = "copy"
    /\ cave_source' = WriteBytes(cave_source, sourcecave_p,
                                 CopyOldCode(host, CurAddr, CurCavesize))
    /\ pc' = NextStep("copy")
    /\ UNCHANGED <<breakpoints0, breakpoints, host, i, cur_addr,
                   sourcecaves_total_size, valid_breakpoint_count,
                   total_valid_addrs, breakpoint_total_size,
                   callcaves_total_size, cave_bases, cave_call, sourcecave_p,
                   callcave_p, asm_buf, current_asm_buf_size, protect,
                   retval, fault, sites>>

\* cave_fix(sourcecave_p, addr)
GenCaveFix ==
    /\ UNCHANGED notApply
    /\ pc = "cave_fix"
    /\ cave_source' = cave_fix(cave_source, sourcecave_p, SrcAddr(sourcecave_p),
                               CurAddr)
    /\ pc' = NextStep("cave_fix")
    /\ UNCHANGED <<breakpoints0, breakpoints, host, i, cur_addr,
                   sourcecaves_total_size, valid_breakpoint_count,
                   total_valid_addrs, breakpoint_total_size,
                   callcaves_total_size, cave_bases, cave_call, sourcecave_p,
                   callcave_p, asm_buf, current_asm_buf_size, protect,
                   retval, fault, sites>>

\* JMP addr
GenJmp ==
    /\ UNCHANGED notApply
    /\ pc = "jmp"
    /\ cave_source' =
           Store32(WriteBytes(cave_source, sourcecave_p + CurCavesize,
                              <<x86_JMP_NEAR_REL32>>),
                   sourcecave_p + CurCavesize + 1,
                   CaveDist(CurAddr, SrcAddr(sourcecave_p)))
    /\ pc' = NextStep("jmp")
    /\ UNCHANGED <<breakpoints0, breakpoints, host, i, cur_addr,
                   sourcecaves_total_size, valid_breakpoint_count,
                   total_valid_addrs, breakpoint_total_size,
                   callcaves_total_size, cave_bases, cave_call, sourcecave_p,
                   callcave_p, asm_buf, current_asm_buf_size, protect,
                   retval, fault, sites>>

\* PatchRegion((void*)addr, NULL, asm_buf, cavesize)
GenPatchRegion ==
    /\ UNCHANGED notApply
    /\ pc = "patch_region"
    /\ host' = PatchRegion(host, CurAddr, asm_buf, InstallLen(CurCavesize))
    /\ pc' = NextStep("patch_region")
    /\ UNCHANGED <<breakpoints0, breakpoints, i, cur_addr,
                   sourcecaves_total_size, valid_breakpoint_count,
                   total_valid_addrs, breakpoint_total_size,
                   callcaves_total_size, cave_bases, cave_source, cave_call,
                   sourcecave_p, callcave_p, asm_buf, current_asm_buf_size,
                   protect, retval, fault, sites>>

\* The source-cave cursor advances and the loop goes to the next entry.
GenAdvance ==
    /\ UNCHANGED notApply
    /\ pc = "advance"
    /\ sourcecave_p' = sourcecave_p + SourceStep(i)
    /\ sites' = Append(sites,
           [bp |-> i, entry |-> cur_addr, addr |-> CurAddr,
            cavesize |-> CurCavesize,
            copied |-> ReadBytes(cave_source, sourcecave_p, CurCavesize),
            src |-> sourcecave_p, src_end |-> sourcecave_p',
            call |-> callcave_p - CallStep, call_end |-> callcave_p])
    /\ cur_addr' = cur_addr + 1
    /\ pc' = "gen"
    /\ UNCHANGED <<breakpoints0, breakpoints, host, i,
                   sourcecaves_total_size, valid_breakpoint_count,
                   total_valid_addrs, breakpoint_total_size,
                   callcaves_total_size, cave_bases, cave_source, cave_call,
                   callcave_p, asm_buf, current_asm_buf_size, protect,
                   retval, fault>>

NextOrder ==
    \/ ApplyEmpty
    \/ ApplyBegin
    \/ SizeDesc
    \/ SizeNone
    \/ Alloc
    \/ AllocFail
    \/ GenDesc
    \/ GenAddrEnter
    \/ GenPatchEntry
    \/ GenBpDist
    \/ GenCopyOldCode
    \/ GenCaveFix
    \/ GenJmp
    \/ GenPatchRegion
    \/ GenAdvance
    \/ GenDone

SpecOrder == Init /\ [][NextOrder]_vars

(***************************************************************************)
(* Properties of the statement order, checked under SpecOrder              *)
(***************************************************************************)
\* The call-cave slot of the PatchSite being generated holds the stub with
\* its three fields patched.
CallSlotComplete ==
    LET cp == callcave_p - CallStep
    IN  /\ cp >= 0
        /\ ReadBytes(cave_call, cp, bp_entry_size) =
             ReadBytes(PatchBPEntry(TemplateCopies(callcaves_total_size), cp,
                                    SrcAddr(sourcecave_p), DescAddr(i)),
                       cp, bp_entry_size)

\* The source-cave slot of the PatchSite being generated holds the bytes
\* that hostmem has in the window of the PatchSite, the relocation fix-up
\* applied, followed by the jump back.
SourceSlotComplete(hostmem) ==
    LET sp == sourcecave_p
        old == ReadBytes(hostmem, OffIn(CurAddr, HostBase), CurCavesize)
        fixed == cave_fix(WriteBytes(cave_source, sp, old), sp, SrcAddr(sp), CurAddr)
    IN  /\ ReadBytes(cave_source, sp, CurCavesize) =
             ReadBytes(fixed, sp, CurCavesize)
        /\ cave_source[sp + CurCavesize] = x86_JMP_NEAR_REL32
        /\ Load32(cave_source, sp + CurCavesize + 1) =
             CaveDist(CurAddr, SrcAddr(sp))

\* C25: a step that changes the host code writes neither cave region and
\* finds both slots of its PatchSite complete, the source-cave slot made
\* from the bytes the target holds before that step; and no later step
\* changes a slot of a PatchSite whose call has been installed.
C25_InstallOrder ==
    [][/\ (host' # host =>
              /\ cave_call' = cave_call /\ cave_source' = cave_source
              /\ CallSlotComplete
              /\ SourceSlotComplete(host))
       /\ \A k \in 1..Len(sites) :
              /\ ReadBytes(cave_call', sites[k].call, bp_entry_size) =
                   ReadBytes(cave_call, sites[k].call, bp_entry_size)
              /\ ReadBytes(cave_source', sites[k].src,
                           sites[k].src_end - sites[k].src) =
                   ReadBytes(cave_source, sites[k].src,
                             sites[k].src_end - sites[k].src)]_vars

\* C25 witness: the call of a third PatchSite has just been written over
\* bytes that began with a relative call or jump, both slots being
\* complete.
C25_Witness ==
    /\ pc = "advance" /\ Len(sites) >= 2
    /\ cave_source[sourcecave_p] \in {x86_CALL_NEAR_REL32, x86_JMP_NEAR_REL32}
    /\ host[OffIn(CurAddr, HostBase)] = x86_CALL_NEAR_REL32
    /\ CallSlotComplete

(***************************************************************************)
(* Properties of File::download, checked under SpecFile                    *)
(***************************************************************************)
\* C27: File::data is assigned at most once, by the first thread that took
\* data_mutex after a successful transfer, and holds what that thread had
\* received; the status is DONE only after that assignment; once the status
\* is DONE it stays DONE, and once the data is assigned no step changes it.
C27_DoneIsFinal ==
    /\ [](/\ Len(data_assigns) <= 1
          /\ (status = "DONE" => Len(data_assigns) = 1)
          /\ (data_assigns # <<>> =>
                /\ data_assigns[1] = finishers[1]
                /\ \A k \in 1..Len(data) : data[k] = finishers[1]))
    /\ [][/\ (status = "DONE" => status' = "DONE")
           /\ (data_assigns # <<>> =>
                 data' = data /\ data_assigns' = data_assigns)]_vars

\* C27 witness: the file is DONE with received data, a second thread has
\* finished its transfer successfully after the first one and has returned,
\* and a third thread has failed and returned.
C27_Witness ==
    /\ status = "DONE" /\ Len(data) = MaxChunks
    /\ Len(finishers) >= 2
    /\ tpc[finishers[2]] = "returned"
    /\ \E t \in Threads : ret[t] = "false"

\* C28: every change of the status is one of TODO -> DOWNLOADING,
\* DOWNLOADING -> FAILED, DOWNLOADING -> DONE and FAILED -> DONE.
C28_StatusTransitions ==
    [][status' # status =>
          <<status, status'>> \in { <<"TODO", "DOWNLOADING">>,
                                    <<"DOWNLOADING", "FAILED">>,
                                    <<"DOWNLOADING", "DONE">>,
                                    <<"FAILED", "DONE">> }]_vars

\* C28 witness: a thread has completed the file after another thread
\* failed, and a failure came after DONE.
C28_Witness ==
    /\ status = "DONE"
    /\ \E t, u \in Threads :
          /\ ret[t] = "false" /\ ret_status[t] = "FAILED"
          /\ ret[u] = "false" /\ ret_status[u] = "DONE"

\* C29 as claimed: download returns true only with the status DONE at the
\* return, and false only with a status other than DONE at the return.
C29_ResultAgreesWithState ==
    \A t \in DOMAIN ret :
        /\ (ret[t] = "true" => ret_status[t] = "DONE")
        /\ (ret[t] = "false" => ret_status[t] # "DONE")

(***************************************************************************)
(* Properties of textimage_commit, checked under SpecSprite                *)
(***************************************************************************)
\* The copied part of the sprite spec of slot q in specs.
SpecOf(specs, q) == ReadBytes(specs, q * SpecSize, CopySize)

\* The backup fields of a sprite_runtime_t.
Backup(sr) == <<ReadBytes(sr.spec_game, 0, CopySize), sr.script_game>>

AllOrNothing(m, g) ==
    \/ \A n \in 1..Len(g) : m[g[n]].is_ours
    \/ \A n \in 1..Len(g) : ~m[g[n]].is_ours

\* C31 as claimed: after every textimage_commit, each registered group has
\* all of its member slots replaced or none, and a group with a replaced
\* member has would_be_replaced() for every member.
C31_GroupsAllOrNothing ==
    [][commits' # commits =>
          \A g \in 1..Len(Groups') :
              /\ AllOrNothing(SpriteRuntimeMap', Groups'[g])
              /\ ((\E n \in 1..Len(Groups'[g]) :
                      SpriteRuntimeMap'[Groups'[g][n]].is_ours) =>
                    \A n \in 1..Len(Groups'[g]) :
                        would_be_replaced(SpriteRuntimeMap'[Groups'[g][n]]))]_vars


(***************************************************************************)
(* Properties of the image declarations, checked under SpecLoad            *)
(***************************************************************************)
\* The pointer p is null or points to an image that is in Images.
InImages(p) == p = 0 \/ \E n \in 1..Len(ImageList) : ImageList[n] = p

\* C33 as claimed: after every call of BP_textimage_load the active image of
\* each slot and the lower and higher link of each image in Images is null
\* or an image in Images, and no deleted image was dereferenced.
C33_NoDanglingImage ==
    /\ \A q \in LoadSlots : InImages(ActiveTi[q])
    /\ \A n \in 1..Len(ImageList) :
          /\ InImages(Instances[ImageList[n]].lower)
          /\ InImages(Instances[ImageList[n]].higher)
    /\ ~uaf

\* A call that reloads the one image last'.image, whose priority is lower
\* than that of the active image of its slot, returns -1 and leaves the
\* texture slots, the active images, the images and the shown sprites as
\* they are.
LowerPriorityIgnored ==
    last'.op = "image" =>
        LET a == ActiveTi[Instances[last'.image].sprite_slot]
        IN  (a # 0 /\ Instances[a].priority > Instances[last'.image].priority)
               => /\ last'.hr = -1
                  /\ UNCHANGED <<TextureSlots, ActiveTi, Instances, Shown>>

\* After the step a higher image than p is in Images for slot q.
HigherDefined(q, p) ==
    \E n \in 1..Len(ImageList') :
        /\ Instances'[ImageList'[n]].sprite_slot = q
        /\ Instances'[ImageList'[n]].priority > Instances'[p].priority

\* An image that a reload makes the active one of its slot while a higher
\* image is in Images for that slot was reloaded as the fallback of a failed
\* image.
OnlyFallbackLowers ==
    last'.op \in {"image", "slot"} =>
        \A q \in LoadSlots :
            (/\ ActiveTi'[q] # 0
             /\ ActiveTi'[q] # ActiveTi[q]
             /\ HigherDefined(q, ActiveTi'[q])) => ActiveTi'[q] \in last'.fell

\* C32 as claimed: a reload of an image of lower priority than the active
\* image of its slot returns -1 and changes nothing, and a lower image
\* becomes active while a higher one is declared for the slot only as a
\* fallback.
C32_PriorityIgnored == [][LowerPriorityIgnored /\ OnlyFallbackLowers]_vars


(***************************************************************************)
(* Properties of patch_thtx, checked under SpecThtx                        *)
(***************************************************************************)
\* The bytes of the image buffer: width * height * bpp of them.
ImageBytes ==
    Range(0, args.image.width * args.image.height
                 * format_Bpp(args.thtx.format))

\* The bytes of the texture data: w * h * bpp of them.
TextureBytes == Range(0, ThtxSize(args.thtx))

\* C34 as claimed: patch_thtx reads only bytes of the image buffer and
\* writes only bytes of the texture data, for every start position inside
\* the image and every texture size.
C34_PatchInBounds == reads \subseteq ImageBytes /\ writes \subseteq TextureBytes

==========================================================================
